---- MODULE Spec2Model ----
(***************************************************************************)
(* A model of the ingestion pipeline of paperflow (package arxiv_zotero):  *)
(* the ZoteroClient (rate limiter, arXiv-id cache, generic lookup cache,   *)
(* duplicate check, item creation), the PaperProcessor per-record workflow *)
(* and the ArxivZoteroCollector batch run on the asyncio event loop.       *)
(*                                                                         *)
(* Time is measured in whole seconds.  Strings that the code trims are     *)
(* sequences of one-character strings, so that str.strip is computed.      *)
(***************************************************************************)
EXTENDS Integers, Sequences, FiniteSets, TLC

(***************************************************************************)
(* Program constants (clients/zotero_client.py).                           *)
(***************************************************************************)
ZOTERO_RATE_LIMIT_WINDOW == 600
ZOTERO_RATE_LIMIT_MAX_REQUESTS == 100
ZOTERO_RATE_LIMIT_THRESHOLD == 90
ZOTERO_MIN_REQUEST_INTERVAL == 6
ZOTERO_RATE_LIMIT_BUFFER == 5
CACHE_TTL_SECONDS == 300
LOOKUP_CACHE_MAX_SIZE == 1000
LOOKUP_CACHE_EVICT_SIZE == 200
MIN_CONCURRENT_PAPERS == 1
DEFAULT_CONCURRENT_PAPERS == 5
MAX_CONCURRENT_PAPERS == 20
GLOBAL_LIST_LIMIT == 500
COLLECTION_LIST_LIMIT == 100

(***************************************************************************)
(* Bounds of the model.                                                    *)
(***************************************************************************)
MaxBatch == 2
MaxRuns == 2
MaxFaults == 1
MaxElapses == 1
MaxCalls == 3
MaxRequests == 102
MaxIdle == 1
MaxPapers == 3
MaxReranks == 1
ScenarioCycles == 5
MaxTracked == 4
FailRuns == 1
MaxAttempts == 3
BatchTimeout == 1

(***************************************************************************)
(* Threads of control: Main is the script / the run_collection_async       *)
(* coroutine, 1..MaxBatch are the per-record tasks handed to               *)
(* asyncio.gather.  Loop says that no coroutine holds the interpreter.     *)
(***************************************************************************)
Main == 0
Loop == -1
Tasks == 1..MaxBatch
Threads == {Main} \cup Tasks

NoKey == 0
NoTime == -1

Max(a, b) == IF a > b THEN a ELSE b

(***************************************************************************)
(* str.strip(): leading and trailing blanks removed.                       *)
(***************************************************************************)
RECURSIVE LStrip(_)
LStrip(s) == IF s # <<>> /\ Head(s) = " " THEN LStrip(Tail(s)) ELSE s

RECURSIVE RStrip(_)
RStrip(s) == IF s # <<>> /\ s[Len(s)] = " " THEN RStrip(SubSeq(s, 1, Len(s) - 1)) ELSE s

Strip(s) == RStrip(LStrip(s))

NoId == <<>>
IdA == <<"a">>
IdAPadded == <<"a", " ">>
IdB == <<"b">>

ArchiveField == "archiveLocation"
ExtraField == "extra"
DoiField == "DOI"
NoField == "title"

(***************************************************************************)
(* The remote store: items in dateAdded order, oldest first.               *)
(***************************************************************************)
Item(k, f, v, c) == [key |-> k, field |-> f, value |-> v, inColl |-> c]

FieldValue(item, f) == IF item.field = f THEN item.value ELSE <<>>

Reverse(s) == [i \in 1..Len(s) |-> s[Len(s) + 1 - i]]

Take(s, n) == SubSeq(s, 1, IF Len(s) < n THEN Len(s) ELSE n)

InCollection(item) == item.inColl

ListItemsWholeLibrary(its, scoped, limit) == Take(Reverse(its), limit)

ListItems(its, scoped, limit) ==
    Take(Reverse(IF scoped THEN SelectSeq(its, InCollection) ELSE its), limit)

RECURSIVE ScanResults(_, _, _)
ScanResults(results, f, ident) ==
    IF results = <<>> THEN NoKey
    ELSE LET v == FieldValue(Head(results), f)
         IN IF v # <<>> /\ Strip(v) = Strip(ident)
            THEN Head(results).key
            ELSE ScanResults(Tail(results), f, ident)

(***************************************************************************)
(* dict helpers: a dict is a function on its key set.                      *)
(***************************************************************************)
EmptyDict == [x \in {} |-> NoKey]

DictPut(d, k, v) == [x \in (DOMAIN d) \cup {k} |-> IF x = k THEN v ELSE d[x]]

DictGet(d, k) == IF k \in DOMAIN d THEN d[k] ELSE NoKey

RECURSIVE BuildCache(_, _)
BuildCache(results, cache) ==
    IF results = <<>> THEN cache
    ELSE LET v == FieldValue(Head(results), ArchiveField)
         IN BuildCache(Tail(results),
                       IF v # <<>> THEN DictPut(cache, Strip(v), Head(results).key)
                       ELSE cache)

(***************************************************************************)
(* The rate limiter (ZoteroClient._rate_limit, _track_request).            *)
(***************************************************************************)
\* The limits _rate_limit and _track_request read: four constants of the
\* module and the client's min_request_interval (line 73).
ModuleLimits ==
    [window |-> ZOTERO_RATE_LIMIT_WINDOW,
     max_requests |-> ZOTERO_RATE_LIMIT_MAX_REQUESTS,
     threshold |-> ZOTERO_RATE_LIMIT_THRESHOLD,
     buffer |-> ZOTERO_RATE_LIMIT_BUFFER,
     min_request_interval |-> ZOTERO_MIN_REQUEST_INTERVAL]

\* lines 88-89
RECURSIVE PurgeWith(_, _, _)
PurgeWith(lim, rt, t) ==
    IF rt # <<>> /\ t - Head(rt) > lim.window
    THEN PurgeWith(lim, Tail(rt), t)
    ELSE rt

Purge(rt, t) == PurgeWith(ModuleLimits, rt, t)

ThresholdSleepWithNoBuffer(lim, rt, t) ==
    IF Len(rt) >= lim.threshold
    THEN Max(0, lim.window - (t - rt[1]))
    ELSE 0

\* lines 92-99
ThresholdSleepWith(lim, rt, t) ==
    IF Len(rt) >= lim.threshold
    THEN Max(0, lim.window - (t - rt[1]) + lim.buffer)
    ELSE 0

ThresholdSleepNever(rt, t) == 0

ThresholdSleep(rt, t) == ThresholdSleepWith(ModuleLimits, rt, t)

IntervalSleepWithNever(lim, rt, t) == 0

\* lines 101-105
IntervalSleepWith(lim, rt, t) ==
    IF rt # <<>> /\ t - rt[Len(rt)] < lim.min_request_interval
    THEN lim.min_request_interval - (t - rt[Len(rt)])
    ELSE 0

IntervalSleep(rt, t) == IntervalSleepWith(ModuleLimits, rt, t)

\* Both waits are computed from the `now` read on entry (line 85).
RateLimitSleep(rt, t) ==
    LET kept == Purge(rt, t)
    IN ThresholdSleep(kept, t) + IntervalSleep(kept, t)

RateLimitSleepWith(lim, rt, t) ==
    LET kept == PurgeWith(lim, rt, t)
    IN ThresholdSleepWith(lim, kept, t) + IntervalSleepWith(lim, kept, t)

\* deque(maxlen = ZOTERO_RATE_LIMIT_MAX_REQUESTS).append
DequeAppendWith(lim, rt, x) ==
    IF Len(rt) >= lim.max_requests
    THEN Append(Tail(rt), x)
    ELSE Append(rt, x)

DequeAppend(rt, x) == DequeAppendWith(ModuleLimits, rt, x)

IsCacheValidInclusive(ts, t) == ts # NoTime /\ t - ts <= CACHE_TTL_SECONDS

IsCacheValid(ts, t) == ts # NoTime /\ t - ts < CACHE_TTL_SECONDS

(***************************************************************************)
(* The generic lookup cache: a dict in insertion order, as a sequence of   *)
(* <<cache_key, item_key>> pairs.  cache_key is <<field, identifier>>.     *)
(***************************************************************************)
LookupHas(lc, ck) == \E i \in 1..Len(lc) : lc[i][1] = ck

LookupGet(lc, ck) == lc[CHOOSE i \in 1..Len(lc) : lc[i][1] = ck][2]

EvictIfFull(lc) ==
    IF Len(lc) >= LOOKUP_CACHE_MAX_SIZE
    THEN SubSeq(lc, LOOKUP_CACHE_EVICT_SIZE + 1, Len(lc))
    ELSE lc

(***************************************************************************)
(* JournalRanker (utils/journal_ranker.py).  The floats of the code are    *)
(* fractions of integers here, computed exactly.  A metric value is        *)
(* counted in the unit of its metric: points for cited_by_percentile and   *)
(* h_index, tenths for impact_factor.  The weights of one ranker share a   *)
(* denominator: weight of m = weights.num[m] / weights.den.                *)
(***************************************************************************)
MetricNames == <<"cited_by_percentile", "h_index", "impact_factor">>

Weights(p, h, f, d) ==
    [num |-> [cited_by_percentile |-> p, h_index |-> h, impact_factor |-> f], den |-> d]

DEFAULT_WEIGHTS == Weights(100, 60, 40, 200)

DEFAULT_SCORES == [cited_by_percentile |-> 50, h_index |-> 10, impact_factor |-> 10]

NORMALIZATION_RANGES ==
    [cited_by_percentile |-> <<0, 100>>, h_index |-> <<1, 500>>, impact_factor |-> <<1, 500>>]

Abs(x) == IF x < 0 THEN -x ELSE x

\* sum(d.values()) of a dict keyed by the three metric names
SumValues(d) == d[MetricNames[1]] + d[MetricNames[2]] + d[MetricNames[3]]

\* An optional constructor argument: None or a dict.
NotGiven(dflt) == [none |-> TRUE, value |-> dflt]

Given(v) == [none |-> FALSE, value |-> v]

\* The weights left alone by the constructor.
RescaleNever(w, total) == w

\* lines 62-63: every weight divided by total_weight = total / w.den
Rescale(w, total) ==
    LET sgn == IF total < 0 THEN -1 ELSE 1
    IN Weights(sgn * w.num.cited_by_percentile, sgn * w.num.h_index,
               sgn * w.num.impact_factor, sgn * total)

\* JournalRanker.__init__, lines 43-65.  abs(total_weight - 1.0) > 0.01 is
\* 100 * |total - den| > den; dividing by a zero total raises.
JournalRankerInit(warg, darg) ==
    LET w == IF warg.none THEN DEFAULT_WEIGHTS ELSE warg.value
        ds == IF darg.none THEN DEFAULT_SCORES ELSE darg.value
        total == SumValues(w.num)
        rescale == 100 * Abs(total - w.den) > w.den
    IN [state |-> IF rescale /\ total = 0 THEN "ZeroDivisionError" ELSE "ready",
        given |-> w,
        weights |-> IF rescale /\ total # 0 THEN Rescale(w, total) ELSE w,
        default_scores |-> ds]

\* A metrics dict: for each name, whether the key is there and its value
\* (<<>> is None).
Absent == [key |-> FALSE, val |-> <<>>]

None == [key |-> TRUE, val |-> <<>>]

Value(v) == [key |-> TRUE, val |-> <<v>>]

MetricsDict(p, h, f) == [cited_by_percentile |-> p, h_index |-> h, impact_factor |-> f]

EmptyMetrics == MetricsDict(Absent, Absent, Absent)

\* metrics.get(metric_name)
MetricGet(metrics, name) == IF metrics[name].key THEN metrics[name].val ELSE <<>>

RangeWidth(name) == NORMALIZATION_RANGES[name][2] - NORMALIZATION_RANGES[name][1]

\* Every metric score 100 * n / RangeWidth is a whole number of
\* 1/ScoreDen-ths, because each range width divides 100 * ScoreDen.
ScoreDen == RangeWidth("h_index")

NormalizeValueUnclamped(value, name) == Max(0, value - NORMALIZATION_RANGES[name][1])

\* _normalize_value, lines 67-84: the numerator of the normalized value
\* over RangeWidth(name), limited to [0, 1]
NormalizeValue(value, name) ==
    Max(0, IF value - NORMALIZATION_RANGES[name][1] > RangeWidth(name)
           THEN RangeWidth(name)
           ELSE value - NORMALIZATION_RANGES[name][1])

CalculateMetricScoreZeroIsData(r, metrics, name) ==
    LET got == MetricGet(metrics, name)
        value == IF got = <<>> THEN r.default_scores[name] ELSE got[1]
    IN (100 * NormalizeValue(value, name) * ScoreDen) \div RangeWidth(name)

\* _calculate_metric_score, lines 86-112, in 1/ScoreDen-ths
CalculateMetricScore(r, metrics, name) ==
    LET got == MetricGet(metrics, name)
        value == IF got = <<>> \/ got = <<0>> THEN r.default_scores[name] ELSE got[1]
    IN (100 * NormalizeValue(value, name) * ScoreDen) \div RangeWidth(name)

\* The dict `scores` of calculate_composite_score, lines 125-129
MetricScores(r, metrics) ==
    MetricsDict(CalculateMetricScore(r, metrics, "cited_by_percentile"),
                CalculateMetricScore(r, metrics, "h_index"),
                CalculateMetricScore(r, metrics, "impact_factor"))

\* calculate_composite_score, lines 114-141: the fraction num / den
CalculateCompositeScore(r, metrics) ==
    LET scores == MetricScores(r, metrics)
    IN [num |-> scores.cited_by_percentile * r.weights.num.cited_by_percentile
                + scores.h_index * r.weights.num.h_index
                + scores.impact_factor * r.weights.num.impact_factor,
        den |-> ScoreDen * r.weights.den]

\* round(score, 2), in hundredths: to the nearest, a tie to the even one
Round2(score) ==
    LET whole == score.num \div score.den
        rest == 100 * (score.num % score.den)
        h == 100 * whole + rest \div score.den
        left == rest % score.den
    IN IF 2 * left > score.den \/ (2 * left = score.den /\ h % 2 = 1) THEN h + 1 ELSE h

\* hash(paper.get('title', '')): a key of its own kind
TitleHash(title) == <<"hash", title>>

Paper(a, c, t) ==
    [arxiv_id |-> a, chinaxiv_id |-> c, title |-> t, openalex_score |-> <<>>,
     openalex_metrics |-> EmptyMetrics]

\* lines 160-164
PaperId(paper) ==
    IF paper.arxiv_id # NoId THEN paper.arxiv_id
    ELSE IF paper.chinaxiv_id # NoId THEN paper.chinaxiv_id
    ELSE TitleHash(paper.title)

\* metrics_map.get(paper_id, {})
MapGet(metrics_map, paper_id) ==
    IF paper_id \in DOMAIN metrics_map THEN metrics_map[paper_id] ELSE EmptyMetrics

\* lines 159-171: the paper with its score and metrics written into it
ScorePaper(r, paper, metrics_map) ==
    LET metrics == MapGet(metrics_map, PaperId(paper))
    IN [paper EXCEPT !.openalex_score = <<Round2(CalculateCompositeScore(r, metrics))>>,
                     !.openalex_metrics = metrics]

\* key=lambda p: p.get('openalex_score', 0)
SortKey(p) == IF p.openalex_score = <<>> THEN 0 ELSE p.openalex_score[1]

RECURSIVE InsertAscending(_, _)
InsertAscending(s, p) ==
    IF s = <<>> THEN <<p>>
    ELSE IF SortKey(Head(s)) <= SortKey(p) THEN <<Head(s)>> \o InsertAscending(Tail(s), p)
    ELSE <<p>> \o s

RECURSIVE InsertBeforeTies(_, _)
InsertBeforeTies(s, p) ==
    IF s = <<>> THEN <<p>>
    ELSE IF SortKey(Head(s)) > SortKey(p) THEN <<Head(s)>> \o InsertBeforeTies(Tail(s), p)
    ELSE <<p>> \o s

\* sorted(..., reverse=True) keeps equal keys in their original order: p
\* goes behind every element whose key is at least its own.
RECURSIVE Insert(_, _)
Insert(s, p) ==
    IF s = <<>> THEN <<p>>
    ELSE IF SortKey(Head(s)) >= SortKey(p) THEN <<Head(s)>> \o Insert(Tail(s), p)
    ELSE <<p>> \o s

RECURSIVE Sorted(_, _)
Sorted(done, rest) ==
    IF rest = <<>> THEN done ELSE Sorted(Insert(done, Head(rest)), Tail(rest))

\* rank_papers, lines 143-182
RankPapers(r, ps, metrics_map) ==
    Sorted(<<>>, [i \in 1..Len(ps) |-> ScorePaper(r, ps[i], metrics_map)])

(***************************************************************************)
(* PerformanceMonitor.track (utils/performance.py).                        *)
(***************************************************************************)
\* What a wrapped function can do: return, raise an exception that derives
\* from Exception, or raise one that derives from BaseException only.
ExceptionSubclasses == {"ValueError"}

BaseExceptionOnly == {"KeyboardInterrupt"}

Returns == [kind |-> "return", exc |-> "none"]

Raises(e) == [kind |-> "raise", exc |-> e]

CallOutcomes == {Returns} \cup {Raises(e) : e \in ExceptionSubclasses \cup BaseExceptionOnly}

\* The value the defaultdict makes for a new name, lines 31-42
NewStats == [call_count |-> 0, success_count |-> 0, error_count |-> 0, last_error |-> <<>>]

\* self.stats[func_name]
StatsOf(st, name) == IF name \in DOMAIN st THEN st[name] ELSE NewStats

CaughtNever(o) == FALSE

\* `except Exception as e`, line 76
Caught(o) == o.kind = "raise" /\ o.exc \in ExceptionSubclasses

\* The finally clause, lines 80-94
WrapperStats(entry, o) ==
    [call_count |-> entry.call_count + 1,
     success_count |-> entry.success_count + (IF Caught(o) THEN 0 ELSE 1),
     error_count |-> entry.error_count + (IF Caught(o) THEN 1 ELSE 0),
     last_error |-> IF Caught(o) THEN <<o.exc>> ELSE entry.last_error]

\* What leaves the wrapper: `raise` (line 79) passes the caught exception
\* on, an uncaught one passes through the finally clause.
Propagated(o) == o.exc

(***************************************************************************)
(* ConfigLoader (utils/config_loader.py).  A variable of the environment   *)
(* is <<>> when unset and <<text>> when set.                               *)
(***************************************************************************)
REQUIRED_VARS == <<"ZOTERO_LIBRARY_ID", "ZOTERO_API_KEY">>

\* os.getenv(var)
Getenv(env, var) == env[var]

\* `not value` is false
Truthy(v) == v # <<>> /\ v # <<"">>

\* str.lower on the texts used here
Lower(text) == IF text = "TRUE" THEN "true" ELSE text

\* The required variables that are unset or empty, in order
MissingRequired(env) == SelectSeq(REQUIRED_VARS, LAMBDA var : ~Truthy(Getenv(env, var)))

NoConfig == [library_id |-> <<>>, api_key |-> <<>>, collection_key |-> <<>>,
             enable_chinaxiv |-> FALSE]

\* load_zotero_config, lines 29-75
LoadZoteroConfig(env) ==
    IF MissingRequired(env) # <<>>
    THEN [state |-> "ConfigError", config |-> NoConfig]
    ELSE IF ~Truthy(Getenv(env, "TEMP_COLLECTION_KEY"))
    THEN [state |-> "ConfigError", config |-> NoConfig]
    ELSE [state |-> "returned",
          config |-> [library_id |-> Getenv(env, "ZOTERO_LIBRARY_ID"),
                      api_key |-> Getenv(env, "ZOTERO_API_KEY"),
                      collection_key |-> Getenv(env, "TEMP_COLLECTION_KEY"),
                      enable_chinaxiv |->
                          LET v == Getenv(env, "ENABLE_CHINAXIV")
                          IN v # <<>> /\ Lower(v[1]) = "true"]]

\* check_env_setup, lines 95-112
CheckEnvSetup(env) ==
    LET missing == MissingRequired(env) \o
                   (IF ~Truthy(Getenv(env, "TEMP_COLLECTION_KEY"))
                    THEN <<"TEMP_COLLECTION_KEY">> ELSE <<>>)
    IN [done |-> TRUE, complete |-> missing = <<>>, missing |-> missing]

(***************************************************************************)
(* The retry decorator (utils/errors.py retry_on_error).  A decorated      *)
(* function is called; each invocation of the function ends as one of      *)
(* CallOutcomes.                                                           *)
(***************************************************************************)
\* The defaults of retry_on_error: backoff_factor = 2.0 and
\* exceptions = (Exception,), which lists every exception that derives from
\* Exception; logger = None.
DEFAULT_BACKOFF_FACTOR == 2

DEFAULT_EXCEPTIONS == ExceptionSubclasses

RECURSIVE Pow(_, _)
Pow(b, e) == IF e = 0 THEN 1 ELSE b * Pow(b, e - 1)

\* line 146
WaitTime(rc) == Pow(rc.backoff_factor, rc.attempt - 1)

\* wrapper entered, lines 129-132: with max_attempts < 1 the loop body never
\* runs and line 153 raises None, a TypeError.
EnterWrapper(n, factor, exceptions, logger) ==
    [state |-> IF n >= 1 THEN "running" ELSE "raised",
     max_attempts |-> n, backoff_factor |-> factor, exceptions |-> exceptions,
     logger |-> logger, attempt |-> IF n >= 1 THEN 1 ELSE 0,
     outcomes |-> <<>>, sleeps |-> <<>>,
     raised |-> IF n >= 1 THEN "none" ELSE "TypeError"]

\* One pass of the loop, lines 132-150: the function is invoked and ends as
\* o.  The handler calls logger.error or logger.warning before anything
\* else, on the logger argument: None has neither.
LoopPass(rc, o) ==
    LET seen == [rc EXCEPT !.outcomes = Append(@, o)]
    IN IF o.kind = "return"
       THEN [seen EXCEPT !.state = "returned"]
       ELSE IF o.exc \notin rc.exceptions
       THEN [seen EXCEPT !.state = "raised", !.raised = o.exc]
       ELSE IF ~rc.logger
       THEN [seen EXCEPT !.state = "raised", !.raised = "AttributeError"]
       ELSE IF rc.attempt = rc.max_attempts
       THEN [seen EXCEPT !.state = "raised", !.raised = o.exc]
       ELSE [seen EXCEPT !.sleeps = Append(@, WaitTime(rc)), !.attempt = @ + 1]

(***************************************************************************)
(* The OpenAlex client (clients/openalex_client.py).  Waits are counted in *)
(* tenths of a second.                                                     *)
(***************************************************************************)
MAX_RETRIES == 3

\* RATE_LIMIT_DELAY = 0.3 s
RATE_LIMIT_DELAY == 3

\* What session.get does: a response with a status code, or an exception.
Status(code) == [kind |-> "response", code |-> code, exc |-> "none"]

Failed(e) == [kind |-> "raise", code |-> 0, exc |-> e]

RateLimited(a) == a.kind = "response" /\ a.code = 429

NextAttemptAfter429Same(rq, a) == IF RateLimited(a) THEN rq.attempt ELSE rq.attempt + 1

\* for attempt in range(self.MAX_RETRIES), line 215
NextAttempt(rq, a) == rq.attempt + 1

\* One pass of the loop of _make_request, lines 215-233, in which
\* session.get ends as a; line 235 when the loop is over.
RequestPass(rq, a) ==
    LET sent == [rq EXCEPT !.answers = Append(@, a),
                           !.sleeps = Append(@, RATE_LIMIT_DELAY)]
        over == NextAttempt(rq, a) >= MAX_RETRIES
        next == [sent EXCEPT !.attempt = NextAttempt(rq, a),
                             !.state = IF over THEN "returned" ELSE "running"]
    IN IF a.kind = "response" /\ ~RateLimited(a)
       THEN [sent EXCEPT !.state = "returned", !.response = <<a>>]
       ELSE IF RateLimited(a)
       THEN [next EXCEPT !.sleeps = Append(@, 10 * Pow(2, rq.attempt))]
       ELSE IF rq.attempt < MAX_RETRIES - 1
       THEN [next EXCEPT !.sleeps = Append(@, RATE_LIMIT_DELAY * (rq.attempt + 1))]
       ELSE next

\* str(i)
IndexKey(i) == <<"str", i>>

\* preload_journal_metrics line 393, for the paper at index i (from 0)
PreloadId(paper, i) ==
    IF paper.arxiv_id # NoId THEN paper.arxiv_id
    ELSE IF paper.chinaxiv_id # NoId THEN paper.chinaxiv_id
    ELSE IndexKey(i)

\* preload_journal_metrics, lines 389-409: results[paper_id] = metrics in
\* the order of the list, a later paper overwriting an earlier one's entry.
PreloadJournalMetrics(ps, fetched) ==
    LET ids == {PreloadId(ps[i], i - 1) : i \in 1..Len(ps)}
        last(id) == CHOOSE i \in 1..Len(ps) :
                       /\ PreloadId(ps[i], i - 1) = id
                       /\ \A k \in (i + 1)..Len(ps) : PreloadId(ps[k], k - 1) # id
    IN [id \in ids |-> fetched[last(id)]]

\* rank_papers_with_openalex, lines 148-172, with the ranker the collector
\* builds when ranking is enabled (connector.py line 86).  rank_papers
\* writes score and metrics into the dicts of `papers` and returns a sorted
\* list of them.
RankPapersWithOpenalex(enabled, ps, fetched) ==
    IF ~enabled \/ ps = <<>>
    THEN [done |-> TRUE, enabled |-> enabled, fetched |-> fetched,
          metrics_map |-> <<>>, papers |-> ps, returned |-> ps]
    ELSE LET r == JournalRankerInit(NotGiven(DEFAULT_WEIGHTS), NotGiven(DEFAULT_SCORES))
             metrics_map == PreloadJournalMetrics(ps, fetched)
         IN [done |-> TRUE, enabled |-> enabled, fetched |-> fetched,
             metrics_map |-> metrics_map,
             papers |-> [i \in 1..Len(ps) |-> ScorePaper(r, ps[i], metrics_map)],
             returned |-> RankPapers(r, ps, metrics_map)]

(***************************************************************************)
(* State.                                                                  *)
(***************************************************************************)
VARIABLES
    now,                      \* time.time()
    request_times,            \* ZoteroClient.request_times
    request_count,            \* ZoteroClient._request_count
    arxiv_id_cache,           \* ZoteroClient._arxiv_id_cache
    cache_timestamp,          \* ZoteroClient._cache_timestamp
    lookup_cache,             \* ZoteroClient._lookup_cache
    collection_key,           \* TRUE iff ZoteroClient.collection_key is set
    collection_only_dupcheck, \* PaperProcessor.collection_only_dupcheck
    download_pdfs,            \* run_collection_async(download_pdfs=...)
    summarizer_enabled,       \* summarizer given and config.summarizer.enabled
    items,                    \* the remote library
    next_key,                 \* next item key the store hands out
    papers,                   \* what the search returns: the batch
    pc,                       \* where each thread of control stands
    frame,                    \* the client call each thread is executing
    running,                  \* the coroutine that holds the interpreter
    successful,               \* run_collection_async.successful
    failed,                   \* run_collection_async.failed
    run_no,                   \* completed runs of run_collection_async
    run_results,              \* per completed run <<successful, failed, creates>>
    all_times,                \* every timestamp _track_request recorded
    last_send,                \* when the store last received a request
    send_gap,                 \* time between the last two requests received
    bypass,                   \* remote calls issued outside the limiter
    returned_calls,           \* remote calls of rate-limited operations that returned
    create_log,               \* identifiers of the create calls of this run
    created_ids,              \* identifiers this client has created
    last_check,               \* the last answer of check_duplicate
    faults,                   \* failures injected so far
    elapses,                  \* idle periods so far
    calls,                    \* direct client calls so far
    ranker,                   \* a JournalRanker: weights, default_scores
    score_call,               \* the last calculate_composite_score call
    rank_call,                \* the last rank_papers call
    stats,                    \* PerformanceMonitor.stats
    track_call,               \* the last call of a tracked function
    environ,                  \* os.environ
    load_call,                \* the last ConfigLoader.load_zotero_config call
    check_call,               \* the last ConfigLoader.check_env_setup call
    retry_call,               \* the last call of a retry_on_error wrapper
    request_call,             \* the last OpenAlexClient._make_request call
    openalex_call             \* the last rank_papers_with_openalex call

clientVars == <<request_times, request_count, arxiv_id_cache, cache_timestamp, lookup_cache>>
configVars == <<collection_key, collection_only_dupcheck, download_pdfs, summarizer_enabled, papers>>
storeVars == <<items, next_key>>
runVars == <<run_no, run_results>>
sendVars == <<last_send, send_gap, bypass, returned_calls>>
createVars == <<create_log, created_ids>>
ctlVars == <<pc, frame, running, successful, failed>>
rankerVars == <<ranker, score_call, rank_call>>
monitorVars == <<stats, track_call>>
loaderVars == <<environ, load_call, check_call>>
retryVars == <<retry_call>>
openalexVars == <<request_call, openalex_call>>
utilVars == <<rankerVars, monitorVars, loaderVars, retryVars, openalexVars>>

vars == <<now, clientVars, configVars, utilVars, storeVars, runVars, sendVars, createVars,
          ctlVars, all_times, last_check, faults, elapses, calls>>

EmptyFrame ==
    [call |-> "none", ident |-> NoId, field |-> NoField, conly |-> FALSE,
     key |-> NoKey, ret |-> NoKey]

NoCheck ==
    [field |-> NoField, ident |-> NoId, scoped |-> FALSE, ret |-> NoKey,
     src |-> "none", age |-> 0, created_before |-> FALSE, truth |-> NoKey]

PaperKinds ==
    { [source |-> "arxiv", id |-> IdA],
      [source |-> "arxiv", id |-> IdB],
      [source |-> "chinaxiv", id |-> IdA],
      [source |-> "arxiv", id |-> NoId] }

Batches == UNION { [1..n -> PaperKinds] : n \in 0..MaxBatch }

InitialStores == { <<>>, <<Item(1, ArchiveField, IdAPadded, FALSE)>> }

\* paper_processor.py 81-86: which field carries the paper's identifier
IdentifierField(paper) == IF paper.source = "chinaxiv" THEN ExtraField ELSE ArchiveField

IdKey(f, v) == <<f, Strip(v)>>

\* Before any ranker, monitor or loader call.
NoRanker ==
    [state |-> "none", given |-> DEFAULT_WEIGHTS, weights |-> DEFAULT_WEIGHTS,
     default_scores |-> DEFAULT_SCORES]

NoScoreCall ==
    [done |-> FALSE, metrics |-> EmptyMetrics, scores |-> MetricsDict(0, 0, 0),
     score |-> [num |-> 0, den |-> 1]]

NoRankCall == [calls |-> 0, input |-> <<>>, metrics_map |-> <<>>, output |-> <<>>]

NoTrackCall == [seq |-> 0, name |-> "none", outcome |-> Returns, propagated |-> "none"]

NoLoadCall == [state |-> "none", config |-> NoConfig]

NoCheckCall == [done |-> FALSE, complete |-> FALSE, missing |-> <<>>]

Environ(lib, api, coll, chinaxiv) ==
    [ZOTERO_LIBRARY_ID |-> lib, ZOTERO_API_KEY |-> api, TEMP_COLLECTION_KEY |-> coll,
     ENABLE_CHINAXIV |-> chinaxiv]

InitRankerIdle == ranker = NoRanker /\ score_call = NoScoreCall /\ rank_call = NoRankCall

InitMonitorIdle == stats = <<>> /\ track_call = NoTrackCall

InitLoaderIdle ==
    /\ environ = Environ(<<>>, <<>>, <<>>, <<>>)
    /\ load_call = NoLoadCall
    /\ check_call = NoCheckCall

NoRetryCall ==
    [state |-> "none", max_attempts |-> 0, backoff_factor |-> 0, exceptions |-> {},
     logger |-> FALSE, attempt |-> 0, outcomes |-> <<>>, sleeps |-> <<>>,
     raised |-> "none"]

NoRequestCall ==
    [state |-> "none", attempt |-> 0, answers |-> <<>>, sleeps |-> <<>>,
     response |-> <<>>]

NoOpenalexCall ==
    [done |-> FALSE, enabled |-> FALSE, fetched |-> <<>>, metrics_map |-> <<>>,
     papers |-> <<>>, returned |-> <<>>]

InitRetryIdle == retry_call = NoRetryCall

InitOpenalexIdle == request_call = NoRequestCall /\ openalex_call = NoOpenalexCall

\* The ranker, the monitor, the loader, the retry decorator and the OpenAlex
\* client take no part in a collection run.
InitUtil ==
    /\ InitRankerIdle
    /\ InitMonitorIdle
    /\ InitLoaderIdle
    /\ InitRetryIdle
    /\ InitOpenalexIdle

InitCommon ==
    /\ now = 0
    /\ request_times = <<>>
    /\ request_count = 0
    /\ arxiv_id_cache = EmptyDict
    /\ cache_timestamp = NoTime
    /\ lookup_cache = <<>>
    /\ next_key = Len(items) + 1
    /\ pc = [t \in Threads |-> IF t = Main
                               THEN IF collection_key THEN "validate" ELSE "idle"
                               ELSE "none"]
    /\ frame = [t \in Threads |-> EmptyFrame]
    /\ running = Main
    /\ successful = 0
    /\ failed = 0
    /\ run_no = 0
    /\ run_results = <<>>
    /\ all_times = <<>>
    /\ last_send = NoTime
    /\ send_gap = NoTime
    /\ bypass = {}
    /\ returned_calls = 0
    /\ create_log = <<>>
    /\ created_ids = {}
    /\ last_check = NoCheck
    /\ elapses = 0
    /\ calls = 0

\* A collector: ArxivZoteroCollector.__init__ (connector.py 40-91)
Init ==
    /\ collection_key \in BOOLEAN
    /\ collection_only_dupcheck \in BOOLEAN
    /\ download_pdfs \in BOOLEAN
    /\ summarizer_enabled \in BOOLEAN
    /\ summarizer_enabled => download_pdfs
    /\ items \in InitialStores
    /\ papers \in Batches
    /\ faults = 0
    /\ InitCommon
    /\ InitUtil

\* The same collector when no call fails and the script never idles: the
\* scheduling of the per-record tasks alone.
InitSched ==
    /\ collection_key \in BOOLEAN
    /\ collection_only_dupcheck = FALSE
    /\ download_pdfs \in BOOLEAN
    /\ summarizer_enabled \in BOOLEAN
    /\ summarizer_enabled => download_pdfs
    /\ items = <<>>
    /\ papers \in Batches
    /\ faults = MaxFaults
    /\ InitCommon
    /\ InitUtil

(***************************************************************************)
(* Control flow of process_paper (paper_processor.py 59-172) and of the    *)
(* client calls it makes.  A thread is at one of                           *)
(*   "check"  entering check_duplicate                                     *)
(*   "rl"     about to run _rate_limit for the call in frame.call          *)
(*   "call"   about to issue the remote call                               *)
(*   "track"  about to run _track_request                                  *)
(*   "awaiting", "upload", "awaiting_sum"  the PDF steps                   *)
(*   "done_ok", "done_fail"  returned True / False and counted             *)
(***************************************************************************)
ListCalls == {"list_refresh", "list_generic", "list_coll"}

OpOf(call) == IF call \in ListCalls THEN "check" ELSE call

Stage(p, c) == [pc |-> p, call |-> c]

\* The places where a coroutine gives up the interpreter: the two awaits of
\* process_paper (lines 122 and 162) and its return.
YieldsAtWithAsyncLimiter(p) == p \in {"awaiting", "awaiting_sum", "done_ok", "done_fail", "call"}

YieldsAt(p) == p \in {"awaiting", "awaiting_sum", "done_ok", "done_fail"}

AfterAddWithoutPdf == Stage("done_ok", "none")

\* lines 119 and 168
AfterAdd == IF download_pdfs THEN Stage("awaiting", "none") ELSE Stage("done_ok", "none")

NextStageIgnoresDuplicate(t, op, v) ==
    IF t = Main THEN Stage("idle", "none")
    ELSE CASE op = "check" -> Stage("rl", "create")
           [] op = "create" ->
                IF v = NoKey THEN Stage("done_fail", "none")
                ELSE IF collection_key THEN Stage("rl", "add") ELSE AfterAdd
           [] op = "add" ->
                IF v = NoKey THEN Stage("done_fail", "none") ELSE AfterAdd

\* What a thread does once client operation `op` returned `v`.
NextStage(t, op, v) ==
    IF t = Main THEN Stage("idle", "none")
    ELSE CASE op = "check" ->
                IF v # NoKey THEN Stage("done_ok", "none") ELSE Stage("rl", "create")
           [] op = "create" ->
                IF v = NoKey THEN Stage("done_fail", "none")
                ELSE IF collection_key THEN Stage("rl", "add") ELSE AfterAdd
           [] op = "add" ->
                IF v = NoKey THEN Stage("done_fail", "none") ELSE AfterAdd

GotoFailureUncounted(t, st, key, ret) ==
    /\ pc' = [pc EXCEPT ![t] = st.pc]
    /\ frame' = [frame EXCEPT ![t].call = st.call, ![t].key = key, ![t].ret = ret]
    /\ successful' = successful + (IF st.pc = "done_ok" THEN 1 ELSE 0)
    /\ failed' = failed
    /\ running' = IF YieldsAt(st.pc) THEN Loop ELSE running

GotoFailureCancelsSiblings(t, st, key, ret) ==
    /\ pc' = [u \in Threads |->
                IF u = t THEN st.pc
                ELSE IF st.pc = "done_fail" /\ pc[u] \in {"awaiting", "awaiting_sum"}
                     THEN "done_fail" ELSE pc[u]]
    /\ frame' = [frame EXCEPT ![t].call = st.call, ![t].key = key, ![t].ret = ret]
    /\ successful' = successful + (IF st.pc = "done_ok" THEN 1 ELSE 0)
    /\ failed' = failed + (IF st.pc = "done_fail" THEN 1 ELSE 0)
    /\ running' = IF YieldsAt(st.pc) THEN Loop ELSE running

Goto(t, st, key, ret) ==
    /\ pc' = [pc EXCEPT ![t] = st.pc]
    /\ frame' = [frame EXCEPT ![t].call = st.call, ![t].key = key, ![t].ret = ret]
    /\ successful' = successful + (IF st.pc = "done_ok" THEN 1 ELSE 0)
    /\ failed' = failed + (IF st.pc = "done_fail" THEN 1 ELSE 0)
    /\ running' = IF YieldsAt(st.pc) THEN Loop ELSE running

IsScopedWithoutKey(f) == f.conly

\* if collection_only and self.collection_key: (line 341)
IsScoped(f) == f.conly /\ collection_key

ListLimit(scoped) == IF scoped THEN COLLECTION_LIST_LIMIT ELSE GLOBAL_LIST_LIMIT

\* The answer check_duplicate gives, with what was true of the store then.
CheckAnswer(f, ret, src, age) ==
    [field |-> f.field, ident |-> f.ident, scoped |-> IsScoped(f), ret |-> ret,
     src |-> src, age |-> age,
     created_before |-> IdKey(f.field, f.ident) \in created_ids,
     truth |-> ScanResults(ListItems(items, IsScoped(f), ListLimit(IsScoped(f))),
                           f.field, f.ident)]

\* check_duplicate, lines 339-399: which path the call takes
CheckMode(f) ==
    IF IsScoped(f) THEN "list_coll"
    ELSE IF f.field = ArchiveField
         THEN IF IsCacheValid(cache_timestamp, now) THEN "arxiv_hit" ELSE "list_refresh"
         ELSE IF LookupHas(lookup_cache, <<f.field, f.ident>>)
              THEN "lookup_hit" ELSE "list_generic"

CheckDuplicateEnter(t) ==
    /\ running = t
    /\ pc[t] = "check"
    /\ LET f == frame[t]
           mode == CheckMode(f)
       IN IF mode = "arxiv_hit"
          THEN LET ret == DictGet(arxiv_id_cache, Strip(f.ident))
               IN /\ Goto(t, NextStage(t, "check", ret), f.key, ret)
                  /\ last_check' = CheckAnswer(f, ret, "arxiv_cache", now - cache_timestamp)
          ELSE IF mode = "lookup_hit"
          THEN LET ret == LookupGet(lookup_cache, <<f.field, f.ident>>)
               IN /\ Goto(t, NextStage(t, "check", ret), f.key, ret)
                  /\ last_check' = CheckAnswer(f, ret, "lookup_cache", 0)
          ELSE /\ Goto(t, Stage("rl", mode), f.key, f.ret)
               /\ UNCHANGED last_check
    /\ UNCHANGED <<now, clientVars, configVars, utilVars, storeVars, runVars, sendVars,
                   createVars, all_times, faults, elapses, calls>>

\* _rate_limit, lines 78-105
RateLimit(t) ==
    /\ running = t
    /\ pc[t] = "rl"
    /\ request_times' = Purge(request_times, now)
    /\ now' = now + RateLimitSleep(request_times, now)
    /\ Goto(t, Stage("call", frame[t].call), frame[t].key, frame[t].ret)
    /\ UNCHANGED <<request_count, arxiv_id_cache, cache_timestamp, lookup_cache,
                   configVars, utilVars, storeVars, runVars, sendVars, createVars,
                   all_times, last_check, faults, elapses, calls>>

Outcomes(call) ==
    {"ok"} \cup
    (IF faults < MaxFaults
     THEN {"raise"} \cup (IF call = "create" THEN {"rejected"} ELSE {})
                    \cup (IF call = "add" THEN {"refused"} ELSE {})
     ELSE {})

MarkInCollection(its, k) ==
    [i \in 1..Len(its) |-> IF its[i].key = k THEN [its[i] EXCEPT !.inColl = TRUE] ELSE its[i]]

StoreAfterCallWithRollback(its, c, o, key, new) ==
    IF c = "create" /\ o = "ok" THEN Append(its, new)
    ELSE IF c = "add" /\ o = "ok" THEN MarkInCollection(its, key)
    ELSE IF c = "add" THEN SelectSeq(its, LAMBDA x : x.key # key)
    ELSE its

\* The library after the self.zot call `c` with outcome `o`: create_items
\* stores the new item, addto_collection files item `key`, a listing or a
\* failed call changes nothing.
StoreAfterCall(its, c, o, key, new) ==
    IF c = "create" /\ o = "ok" THEN Append(its, new)
    ELSE IF c = "add" /\ o = "ok" THEN MarkInCollection(its, key)
    ELSE its

\* add_to_collection fetches the item and then patches it: two requests.
SendsOf(call, o) == IF call = "add" /\ o # "raise" THEN 2 ELSE 1

Sent(n) ==
    /\ last_send' = now
    /\ send_gap' = IF n > 1 THEN 0
                   ELSE IF last_send = NoTime THEN send_gap ELSE now - last_send

SkipsTrackRequestNever(o) == FALSE

\* An exception in the self.zot call leaves the try block for the except
\* clause before _track_request is reached (lines 132-147, 211-229,
\* 254-265, 346-402).
SkipsTrackRequest(o) == o = "raise"

\* The self.zot call of the operation in frame.call, and what follows it
\* up to _track_request or to the except clause.
RemoteCall(t) ==
    /\ running = t
    /\ pc[t] = "call"
    /\ \E o \in Outcomes(frame[t].call) :
         LET f == frame[t]
             c == f.call
             results == ListItems(items, c = "list_coll", ListLimit(c = "list_coll"))
             made == c = "create" /\ o = "ok"
             ret == IF o # "ok" THEN NoKey
                    ELSE CASE c = "create" -> next_key
                           [] c = "add" -> f.key
                           [] c = "list_refresh" -> NoKey
                           [] OTHER -> ScanResults(results, f.field, f.ident)
         IN /\ items' = StoreAfterCall(items, c, o, f.key,
                                       Item(next_key, f.field, f.ident, FALSE))
            /\ next_key' = IF made THEN next_key + 1 ELSE next_key
            /\ arxiv_id_cache' = IF c # "list_refresh" THEN arxiv_id_cache
                                 ELSE IF o = "ok" THEN BuildCache(results, EmptyDict)
                                 ELSE EmptyDict
            /\ cache_timestamp' = IF c # "list_refresh" THEN cache_timestamp
                                  ELSE IF o = "ok" THEN now ELSE NoTime
            /\ Sent(SendsOf(c, o))
            /\ create_log' = IF made THEN Append(create_log, IdKey(f.field, f.ident))
                             ELSE create_log
            /\ created_ids' = IF made /\ Strip(f.ident) # <<>>
                              THEN created_ids \cup {IdKey(f.field, f.ident)}
                              ELSE created_ids
            /\ faults' = faults + (IF o = "ok" THEN 0 ELSE 1)
            /\ returned_calls' = returned_calls + (IF o = "raise" THEN 0 ELSE 1)
            /\ IF SkipsTrackRequest(o)
               THEN /\ Goto(t, NextStage(t, OpOf(c), NoKey), f.key, NoKey)
                    /\ last_check' = IF c \in ListCalls
                                     THEN CheckAnswer(f, NoKey, "failed", 0)
                                     ELSE last_check
               ELSE /\ Goto(t, Stage("track", c), IF made THEN next_key ELSE f.key, ret)
                    /\ UNCHANGED last_check
    /\ UNCHANGED <<now, request_times, request_count, lookup_cache, configVars, utilVars,
                   runVars, bypass, all_times, elapses, calls>>

\* _track_request, lines 107-110, and the rest of the operation
TrackRequest(t) ==
    /\ running = t
    /\ pc[t] = "track"
    /\ request_count' = request_count + 1
    /\ request_times' = DequeAppend(request_times, now)
    /\ all_times' = Append(all_times, now)
    /\ lookup_cache' = IF frame[t].call = "list_generic"
                       THEN EvictIfFull(lookup_cache) ELSE lookup_cache
    /\ LET f == frame[t]
           ret == IF f.call = "list_refresh"
                  THEN DictGet(arxiv_id_cache, Strip(f.ident)) ELSE f.ret
       IN /\ Goto(t, NextStage(t, OpOf(f.call), ret), f.key, ret)
          /\ last_check' = IF f.call \in ListCalls
                           THEN CheckAnswer(f, ret, "remote", 0)
                           ELSE last_check
    /\ UNCHANGED <<now, arxiv_id_cache, cache_timestamp, configVars, utilVars, storeVars,
                   runVars, sendVars, createVars, faults, elapses, calls>>

\* _validate_collection, lines 172-193, called by __init__ (line 76)
ValidateCollection ==
    /\ running = Main
    /\ pc[Main] = "validate"
    /\ \E o \in Outcomes("collections") :
         /\ pc' = [pc EXCEPT ![Main] = IF o = "ok" THEN "idle" ELSE "init_failed"]
         /\ faults' = faults + (IF o = "ok" THEN 0 ELSE 1)
    /\ Sent(1)
    /\ bypass' = bypass \cup {"collections"}
    /\ UNCHANGED <<now, clientVars, configVars, utilVars, storeVars, runVars, createVars,
                   frame, running, successful, failed, all_times, last_check,
                   elapses, calls, returned_calls>>

(***************************************************************************)
(* run_collection_async (connector.py 178-236) on the asyncio event loop.  *)
(***************************************************************************)
RunCollectionStart ==
    /\ running = Main
    /\ pc[Main] = "idle"
    /\ run_no < MaxRuns
    /\ IF papers = <<>>
       THEN /\ run_no' = run_no + 1
            /\ run_results' = Append(run_results, <<0, 0, 0>>)
            /\ UNCHANGED <<ctlVars, create_log>>
       ELSE /\ pc' = [t \in Threads |->
                        IF t = Main THEN "gather"
                        ELSE IF t <= Len(papers) THEN "pending" ELSE "none"]
            /\ frame' = [t \in Threads |-> EmptyFrame]
            /\ running' = Loop
            /\ successful' = 0
            /\ failed' = 0
            /\ create_log' = <<>>
            /\ UNCHANGED runVars
    /\ UNCHANGED <<now, clientVars, configVars, utilVars, storeVars, sendVars, created_ids,
                   all_times, last_check, faults, elapses, calls>>

HasIdentifierAlways(paper) == TRUE

\* if paper_id: (line 88)
HasIdentifier(paper) == paper.id # NoId

\* asyncio.gather runs the tasks' first steps in list order; process_paper
\* lines 77-105 pick the identifier and start the duplicate check or, for a
\* record without identifier, the create.
StartTask(t) ==
    /\ running = Loop
    /\ pc[t] = "pending"
    /\ \A u \in 1..(t - 1) : pc[u] # "pending"
    /\ LET paper == papers[t]
           hasId == HasIdentifier(paper)
       IN /\ frame' = [frame EXCEPT ![t] =
                         [call |-> IF hasId THEN "none" ELSE "create",
                          ident |-> paper.id,
                          field |-> IF hasId THEN IdentifierField(paper) ELSE NoField,
                          conly |-> collection_only_dupcheck,
                          key |-> NoKey, ret |-> NoKey]]
          /\ pc' = [pc EXCEPT ![t] = IF hasId THEN "check" ELSE "rl"]
    /\ running' = t
    /\ UNCHANGED <<now, clientVars, configVars, utilVars, storeVars, runVars, sendVars,
                   createVars, successful, failed, all_times, last_check,
                   faults, elapses, calls>>

DownloadTime == 1

OtherOutcomes(bad) == {"ok"} \cup (IF faults < MaxFaults THEN bad ELSE {})

\* await self.pdf_manager.download_pdf(...) returns, lines 122-128
ResumeDownload(t) ==
    /\ running = Loop
    /\ pc[t] = "awaiting"
    /\ \A u \in Tasks : pc[u] # "pending"
    /\ \E o \in OtherOutcomes({"nofile", "raise"}) :
         /\ pc' = [pc EXCEPT ![t] = IF o = "ok" THEN "upload" ELSE "done_fail"]
         /\ running' = IF o = "ok" THEN t ELSE Loop
         /\ failed' = failed + (IF o = "ok" THEN 0 ELSE 1)
         /\ faults' = faults + (IF o = "ok" THEN 0 ELSE 1)
    /\ now' = now + DownloadTime
    /\ UNCHANGED <<clientVars, configVars, utilVars, storeVars, runVars, sendVars, createVars,
                   frame, successful, all_times, last_check, elapses, calls>>

\* self.zotero_client.zot.upload_attachments(...), lines 131-166
UploadAttachment(t) ==
    /\ running = t
    /\ pc[t] = "upload"
    /\ \E o \in OtherOutcomes({"failure", "raise"}) :
         /\ items' = IF o = "ok"
                     THEN Append(items, Item(next_key, NoField, <<>>, FALSE))
                     ELSE items
         /\ next_key' = IF o = "ok" THEN next_key + 1 ELSE next_key
         /\ faults' = faults + (IF o = "ok" THEN 0 ELSE 1)
         /\ Goto(t, IF o # "ok" THEN Stage("done_fail", "none")
                    ELSE IF summarizer_enabled THEN Stage("awaiting_sum", "none")
                    ELSE Stage("done_ok", "none"),
                 frame[t].key, frame[t].ret)
    /\ Sent(1)
    /\ bypass' = bypass \cup {"upload_attachments"}
    /\ UNCHANGED <<now, clientVars, configVars, utilVars, runVars, createVars, all_times,
                   last_check, elapses, calls, returned_calls>>

\* await self.summarizer.summarize(...) returns, line 162
ResumeSummarize(t) ==
    /\ running = Loop
    /\ pc[t] = "awaiting_sum"
    /\ \E o \in OtherOutcomes({"raise"}) :
         /\ pc' = [pc EXCEPT ![t] = IF o = "ok" THEN "done_ok" ELSE "done_fail"]
         /\ successful' = successful + (IF o = "ok" THEN 1 ELSE 0)
         /\ failed' = failed + (IF o = "ok" THEN 0 ELSE 1)
         /\ faults' = faults + (IF o = "ok" THEN 0 ELSE 1)
    /\ UNCHANGED <<now, clientVars, configVars, utilVars, storeVars, runVars, sendVars,
                   createVars, frame, running, all_times, last_check, elapses, calls>>

Terminal == {"done_ok", "done_fail"}

\* await asyncio.gather(*tasks) returns; lines 217-232
GatherDone ==
    /\ running = Loop
    /\ pc[Main] = "gather"
    /\ \A t \in 1..Len(papers) : pc[t] \in Terminal
    /\ pc' = [pc EXCEPT ![Main] = "idle"]
    /\ running' = Main
    /\ run_no' = run_no + 1
    /\ run_results' = Append(run_results, <<successful, failed, Len(create_log)>>)
    /\ UNCHANGED <<now, clientVars, configVars, utilVars, storeVars, sendVars, createVars,
                   frame, successful, failed, all_times, last_check, faults,
                   elapses, calls>>

\* Time passing while the script is between two calls.
IdleTimes == {1, CACHE_TTL_SECONDS - 1, CACHE_TTL_SECONDS}

Elapse(e, cap) ==
    /\ running = Main
    /\ pc[Main] = "idle"
    /\ elapses < cap
    /\ elapses' = elapses + 1
    /\ now' = now + e
    /\ UNCHANGED <<clientVars, configVars, utilVars, storeVars, runVars, sendVars, createVars,
                   ctlVars, all_times, last_check, faults, calls>>

Next ==
    \/ ValidateCollection
    \/ RunCollectionStart
    \/ \E t \in Tasks : StartTask(t)
    \/ \E t \in Tasks : CheckDuplicateEnter(t)
    \/ \E t \in Tasks : RateLimit(t)
    \/ \E t \in Tasks : RemoteCall(t)
    \/ \E t \in Tasks : TrackRequest(t)
    \/ \E t \in Tasks : ResumeDownload(t)
    \/ \E t \in Tasks : UploadAttachment(t)
    \/ \E t \in Tasks : ResumeSummarize(t)
    \/ GatherDone
    \/ \E e \in IdleTimes : Elapse(e, MaxElapses)

Spec == Init /\ [][Next]_vars

NextSched ==
    \/ ValidateCollection
    \/ RunCollectionStart
    \/ \E t \in Tasks : StartTask(t)
    \/ \E t \in Tasks : CheckDuplicateEnter(t)
    \/ \E t \in Tasks : RateLimit(t)
    \/ \E t \in Tasks : RemoteCall(t)
    \/ \E t \in Tasks : TrackRequest(t)
    \/ \E t \in Tasks : ResumeDownload(t)
    \/ \E t \in Tasks : UploadAttachment(t)
    \/ \E t \in Tasks : ResumeSummarize(t)
    \/ GatherDone

SpecSched == InitSched /\ [][NextSched]_vars

\* Runs of the collector with calls that fail (up to MaxFaults of them),
\* on batches of arXiv records with and without an identifier.
FailBatches ==
    UNION { [1..n -> {[source |-> "arxiv", id |-> IdA], [source |-> "arxiv", id |-> NoId]}] :
            n \in 0..MaxBatch }

InitFail ==
    /\ collection_key \in BOOLEAN
    /\ collection_only_dupcheck = FALSE
    /\ download_pdfs \in BOOLEAN
    /\ summarizer_enabled \in BOOLEAN
    /\ summarizer_enabled => download_pdfs
    /\ items \in InitialStores
    /\ papers \in FailBatches
    /\ faults = 0
    /\ InitCommon
    /\ InitUtil

\* The runs of a collector whose calls can fail, FailRuns of them.
NextFail ==
    \/ ValidateCollection
    \/ run_no < FailRuns /\ RunCollectionStart
    \/ \E t \in Tasks : StartTask(t)
    \/ \E t \in Tasks : CheckDuplicateEnter(t)
    \/ \E t \in Tasks : RateLimit(t)
    \/ \E t \in Tasks : RemoteCall(t)
    \/ \E t \in Tasks : TrackRequest(t)
    \/ \E t \in Tasks : ResumeDownload(t)
    \/ \E t \in Tasks : UploadAttachment(t)
    \/ \E t \in Tasks : ResumeSummarize(t)
    \/ GatherDone

SpecFail == InitFail /\ [][NextFail]_vars

(***************************************************************************)
(* The client used directly, as the unit tests and scripts do: a script    *)
(* that calls check_duplicate, create_item and delete_item in any order.   *)
(***************************************************************************)
QueryIds == {IdA, IdAPadded, IdB}
QueryFields == {ArchiveField, DoiField}

InitClient ==
    /\ collection_key \in BOOLEAN
    /\ collection_only_dupcheck = FALSE
    /\ download_pdfs = FALSE
    /\ summarizer_enabled = FALSE
    /\ items \in InitialStores
    /\ papers = <<>>
    /\ faults = 0
    /\ InitCommon
    /\ InitUtil

\* The client in global mode when no call fails: the caches alone.
InitCache ==
    /\ collection_key = FALSE
    /\ collection_only_dupcheck = FALSE
    /\ download_pdfs = FALSE
    /\ summarizer_enabled = FALSE
    /\ items \in InitialStores
    /\ papers = <<>>
    /\ faults = MaxFaults
    /\ InitCommon
    /\ InitUtil

BeginCall(c, p, ident, field, conly, cap) ==
    /\ running = Main
    /\ pc[Main] = "idle"
    /\ calls < cap
    /\ calls' = calls + 1
    /\ pc' = [pc EXCEPT ![Main] = p]
    /\ frame' = [frame EXCEPT ![Main] =
                   [call |-> c, ident |-> ident, field |-> field, conly |-> conly,
                    key |-> NoKey, ret |-> NoKey]]
    /\ UNCHANGED <<now, clientVars, configVars, utilVars, storeVars, runVars, sendVars,
                   createVars, running, successful, failed, all_times,
                   last_check, faults, elapses>>

\* client.check_duplicate(identifier, identifier_field, collection_only)
CallCheckDuplicate(ident, field, conly, cap) ==
    BeginCall("none", "check", ident, field, conly, cap)

\* client.create_item("journalArticle", {field: ident, ...}), lines 195-237
CallCreateItem(ident, field, cap) ==
    BeginCall("create", "rl", ident, field, FALSE, cap)

RemoveKey(its, k) == SelectSeq(its, LAMBDA x : x.key # k)

\* client.delete_item(item_key), lines 431-447
CallDeleteItem(i, cap) ==
    /\ running = Main
    /\ pc[Main] = "idle"
    /\ calls < cap
    /\ i \in 1..Len(items)
    /\ calls' = calls + 1
    /\ \E o \in OtherOutcomes({"raise"}) :
         /\ items' = IF o = "ok" THEN RemoveKey(items, items[i].key) ELSE items
         /\ faults' = faults + (IF o = "ok" THEN 0 ELSE 1)
    /\ Sent(1)
    /\ bypass' = bypass \cup {"delete_item"}
    /\ UNCHANGED <<now, clientVars, configVars, utilVars, next_key, runVars, createVars,
                   ctlVars, all_times, last_check, elapses, returned_calls>>

NextClient ==
    \/ ValidateCollection
    \/ \E ident \in QueryIds, field \in QueryFields, conly \in BOOLEAN :
         CallCheckDuplicate(ident, field, conly, MaxCalls)
    \/ \E ident \in QueryIds, field \in QueryFields : CallCreateItem(ident, field, MaxCalls)
    \/ \E i \in 1..MaxCalls : CallDeleteItem(i, MaxCalls)
    \/ CheckDuplicateEnter(Main)
    \/ RateLimit(Main)
    \/ RemoteCall(Main)
    \/ TrackRequest(Main)
    \/ \E e \in IdleTimes : Elapse(e, MaxElapses)

SpecClient == InitClient /\ [][NextClient]_vars

CacheQueryIds == {IdA, IdAPadded}

NextCache ==
    \/ \E ident \in CacheQueryIds, field \in QueryFields :
         CallCheckDuplicate(ident, field, FALSE, MaxCalls)
    \/ \E ident \in CacheQueryIds, field \in QueryFields :
         CallCreateItem(ident, field, MaxCalls)
    \/ CheckDuplicateEnter(Main)
    \/ RateLimit(Main)
    \/ RemoteCall(Main)
    \/ TrackRequest(Main)
    \/ \E e \in IdleTimes : Elapse(e, MaxElapses)

SpecCache == InitCache /\ [][NextCache]_vars

\* The same client, without a collection key, asked with collection_only
\* set or not.
NextNoKey ==
    \/ \E ident \in CacheQueryIds, field \in QueryFields, conly \in BOOLEAN :
         CallCheckDuplicate(ident, field, conly, MaxCalls)
    \/ \E field \in QueryFields : CallCreateItem(IdA, field, MaxCalls)
    \/ CheckDuplicateEnter(Main)
    \/ RateLimit(Main)
    \/ RemoteCall(Main)
    \/ TrackRequest(Main)
    \/ \E e \in IdleTimes : Elapse(e, MaxElapses)

SpecNoKey == InitCache /\ [][NextNoKey]_vars

(***************************************************************************)
(* The client of a collector with a target collection, checking            *)
(* duplicates inside the collection only (collection_only = True).         *)
(***************************************************************************)
InitScoped ==
    /\ collection_key = TRUE
    /\ collection_only_dupcheck = TRUE
    /\ download_pdfs = FALSE
    /\ summarizer_enabled = FALSE
    /\ items \in InitialStores
    /\ papers = <<>>
    /\ faults = 0
    /\ InitCommon
    /\ InitUtil

\* client.add_to_collection(item_key), lines 239-267
CallAddToCollection(i, cap) ==
    /\ running = Main
    /\ pc[Main] = "idle"
    /\ calls < cap
    /\ i \in 1..Len(items)
    /\ calls' = calls + 1
    /\ pc' = [pc EXCEPT ![Main] = "rl"]
    /\ frame' = [frame EXCEPT ![Main] =
                   [call |-> "add", ident |-> NoId, field |-> NoField, conly |-> FALSE,
                    key |-> items[i].key, ret |-> NoKey]]
    /\ UNCHANGED <<now, clientVars, configVars, utilVars, storeVars, runVars, sendVars,
                   createVars, running, successful, failed, all_times,
                   last_check, faults, elapses>>

NextScoped ==
    \/ ValidateCollection
    \/ \E ident \in CacheQueryIds, field \in QueryFields :
         CallCheckDuplicate(ident, field, TRUE, MaxCalls)
    \/ \E field \in QueryFields : CallCreateItem(IdA, field, MaxCalls)
    \/ \E i \in 1..MaxCalls : CallAddToCollection(i, MaxCalls)
    \/ CheckDuplicateEnter(Main)
    \/ RateLimit(Main)
    \/ RemoteCall(Main)
    \/ TrackRequest(Main)

SpecScoped == InitScoped /\ [][NextScoped]_vars

(***************************************************************************)
(* The limiter alone: one client issuing rate-limited listing requests     *)
(* back to back, with idle periods in between.                             *)
(***************************************************************************)
InitLimiter ==
    /\ collection_key = FALSE
    /\ collection_only_dupcheck = FALSE
    /\ download_pdfs = FALSE
    /\ summarizer_enabled = FALSE
    /\ items = <<>>
    /\ papers = <<>>
    /\ faults = MaxFaults
    /\ InitCommon
    /\ InitUtil

LimiterIdleTimes == {1, ZOTERO_RATE_LIMIT_WINDOW}

NextLimiter ==
    \/ CallCheckDuplicate(IdA, DoiField, FALSE, MaxRequests)
    \/ CheckDuplicateEnter(Main)
    \/ RateLimit(Main)
    \/ RemoteCall(Main)
    \/ TrackRequest(Main)
    \/ \E e \in LimiterIdleTimes : Elapse(e, MaxIdle)

SpecLimiter == InitLimiter /\ [][NextLimiter]_vars

(***************************************************************************)
(* The ranker alone: a JournalRanker is constructed, then scores metrics   *)
(* (SpecScore) or ranks lists of papers (SpecRank).                        *)
(***************************************************************************)
collectorVars == <<now, clientVars, configVars, storeVars, runVars, sendVars, createVars,
                   ctlVars, all_times, last_check, faults, elapses, calls>>

\* No collector at work.
InitUnused ==
    /\ collection_key = FALSE
    /\ collection_only_dupcheck = FALSE
    /\ download_pdfs = FALSE
    /\ summarizer_enabled = FALSE
    /\ items = <<>>
    /\ papers = <<>>
    /\ faults = 0
    /\ InitCommon

InitRanker == InitUnused /\ InitUtil

\* Weight arguments: none, the sums 3, 1.005, 0.25, -1 and 0, and a
\* negative weight in a sum of 1.
WeightArgs ==
    { NotGiven(DEFAULT_WEIGHTS),
      Given(Weights(200, 200, 200, 200)),
      Given(Weights(101, 60, 40, 200)),
      Given(Weights(20, 20, 10, 200)),
      Given(Weights(-100, -60, -40, 200)),
      Given(Weights(0, 0, 0, 200)),
      Given(Weights(400, -200, 0, 200)) }

DefaultArgs ==
    { NotGiven(DEFAULT_SCORES),
      Given([cited_by_percentile |-> 80, h_index |-> 250, impact_factor |-> 25]) }

\* Raw values: zero, negative, inside the range, its upper end, beyond it.
MetricValues ==
    [cited_by_percentile |-> {0, -5, 75, NORMALIZATION_RANGES.cited_by_percentile[2], 150},
     h_index |-> {0, -5, 250, NORMALIZATION_RANGES.h_index[2], 600},
     impact_factor |-> {0, -5, 25, NORMALIZATION_RANGES.impact_factor[2], 999}]

MetricEntries(name) == {Absent, None} \cup {Value(v) : v \in MetricValues[name]}

MetricInputs ==
    { MetricsDict(p, h, f) : p \in MetricEntries("cited_by_percentile"),
                             h \in MetricEntries("h_index"),
                             f \in MetricEntries("impact_factor") }

\* JournalRanker(weights, default_scores)
Construct(warg, darg) ==
    /\ ranker.state = "none"
    /\ ranker' = JournalRankerInit(warg, darg)
    /\ UNCHANGED <<collectorVars, score_call, rank_call, monitorVars, loaderVars, retryVars, openalexVars>>

\* ranker.calculate_composite_score(metrics); one call per ranker, as the
\* call reads nothing that an earlier call wrote.
CallCompositeScore(metrics) ==
    /\ ranker.state = "ready"
    /\ ~score_call.done
    /\ score_call' = [done |-> TRUE, metrics |-> metrics,
                      scores |-> MetricScores(ranker, metrics),
                      score |-> CalculateCompositeScore(ranker, metrics)]
    /\ UNCHANGED <<collectorVars, ranker, rank_call, monitorVars, loaderVars, retryVars, openalexVars>>

NextScore ==
    \/ \E warg \in WeightArgs, darg \in DefaultArgs : Construct(warg, darg)
    \/ \E metrics \in MetricInputs : CallCompositeScore(metrics)

SpecScore == InitRanker /\ [][NextScore]_vars

PaperPool ==
    { Paper(IdA, NoId, "t1"), Paper(IdB, NoId, "t2"), Paper(NoId, IdB, "t3"),
      Paper(NoId, NoId, "t4") }

PaperLists == UNION { [1..n -> PaperPool] : n \in 0..MaxPapers }

\* Metrics maps: empty, distinct metrics for a and b, equal metrics for both.
MetricsMaps ==
    { <<>>,
      (IdA :> MetricsDict(Value(100), Value(500), Value(500)))
         @@ (IdB :> MetricsDict(Value(10), Value(5), Absent)),
      (IdA :> MetricsDict(Value(75), None, Value(25)))
         @@ (IdB :> MetricsDict(Value(75), None, Value(25))) }

\* ranker.rank_papers(papers, metrics_map)
CallRankPapers(ps, metrics_map) ==
    /\ ranker.state = "ready"
    /\ rank_call.calls = 0
    /\ rank_call' = [calls |-> 1, input |-> ps, metrics_map |-> metrics_map,
                     output |-> RankPapers(ranker, ps, metrics_map)]
    /\ UNCHANGED <<collectorVars, ranker, score_call, monitorVars, loaderVars, retryVars, openalexVars>>

\* ranker.rank_papers(ranked, metrics_map) on the list it returned
CallRankPapersAgain ==
    /\ ranker.state = "ready"
    /\ rank_call.calls \in 1..MaxReranks
    /\ rank_call' = [rank_call EXCEPT
                       !.calls = @ + 1,
                       !.input = rank_call.output,
                       !.output = RankPapers(ranker, rank_call.output, rank_call.metrics_map)]
    /\ UNCHANGED <<collectorVars, ranker, score_call, monitorVars, loaderVars, retryVars, openalexVars>>

NextRank ==
    \/ \E warg \in WeightArgs, darg \in DefaultArgs : Construct(warg, darg)
    \/ \E ps \in PaperLists, metrics_map \in MetricsMaps : CallRankPapers(ps, metrics_map)
    \/ CallRankPapersAgain

SpecRank == InitRanker /\ [][NextRank]_vars

(***************************************************************************)
(* The limiter with short limits: the module's window and deque length set *)
(* to 10 s and 3, the client's min_request_interval to 2 s, threshold and  *)
(* buffer as the module defines them.  One caller runs _rate_limit, its    *)
(* request and _track_request in turn.                                     *)
(***************************************************************************)
ScenarioLimits ==
    [window |-> 10,
     max_requests |-> 3,
     threshold |-> ZOTERO_RATE_LIMIT_THRESHOLD,
     buffer |-> ZOTERO_RATE_LIMIT_BUFFER,
     min_request_interval |-> 2]

\* How long a request takes.
CallTimes == {0, 1, 3}

\* _rate_limit, lines 78-105
ScenarioAcquire ==
    /\ running = Main
    /\ pc[Main] = "idle"
    /\ request_count < ScenarioCycles
    /\ request_times' = PurgeWith(ScenarioLimits, request_times, now)
    /\ now' = now + RateLimitSleepWith(ScenarioLimits, request_times, now)
    /\ pc' = [pc EXCEPT ![Main] = "call"]
    /\ UNCHANGED <<request_count, arxiv_id_cache, cache_timestamp, lookup_cache,
                   configVars, utilVars, storeVars, runVars, sendVars, createVars,
                   frame, running, successful, failed, all_times, last_check,
                   faults, elapses, calls>>

\* The request, then _track_request, lines 107-110
ScenarioRecord(d) ==
    /\ running = Main
    /\ pc[Main] = "call"
    /\ now' = now + d
    /\ request_count' = request_count + 1
    /\ request_times' = DequeAppendWith(ScenarioLimits, request_times, now + d)
    /\ all_times' = Append(all_times, now + d)
    /\ pc' = [pc EXCEPT ![Main] = "idle"]
    /\ UNCHANGED <<arxiv_id_cache, cache_timestamp, lookup_cache, configVars, utilVars,
                   storeVars, runVars, sendVars, createVars, frame, running,
                   successful, failed, last_check, faults, elapses, calls>>

NextScenario ==
    \/ ScenarioAcquire
    \/ \E d \in CallTimes : ScenarioRecord(d)

\* A new client, nothing sent yet, at time 0.
InitScenario == InitUnused /\ InitUtil

SpecScenario == InitScenario /\ [][NextScenario]_vars

(***************************************************************************)
(* The monitor alone: functions wrapped by PerformanceMonitor.track are    *)
(* called one after the other, and the statistics are reset now and then.  *)
(***************************************************************************)
TrackedNames == {"f", "g"}

InitMonitor == InitUnused /\ InitUtil

\* wrapper(*args, **kwargs), lines 67-94, for the function tracked as `name`
\* that ends as `o`
TrackedCall(name, o) ==
    /\ track_call.seq < MaxTracked
    /\ stats' = (name :> WrapperStats(StatsOf(stats, name), o)) @@ stats
    /\ track_call' = [seq |-> track_call.seq + 1, name |-> name, outcome |-> o,
                      propagated |-> Propagated(o)]
    /\ UNCHANGED <<collectorVars, rankerVars, loaderVars, retryVars, openalexVars>>

\* reset, lines 208-211
Reset ==
    /\ stats # <<>>
    /\ stats' = <<>>
    /\ UNCHANGED <<collectorVars, rankerVars, track_call, loaderVars, retryVars, openalexVars>>

NextMonitor ==
    \/ \E name \in TrackedNames, o \in CallOutcomes : TrackedCall(name, o)
    \/ Reset

SpecMonitor == InitMonitor /\ [][NextMonitor]_vars

(***************************************************************************)
(* The loader alone: load_zotero_config and check_env_setup in some        *)
(* environment.                                                            *)
(***************************************************************************)
\* A variable is unset, set to the empty text, or set to a text.
RequiredValues == {<<>>, <<"">>, <<"text">>}

ChinaxivValues == {<<>>, <<"false">>, <<"true">>, <<"TRUE">>}

InitLoader ==
    /\ InitUnused
    /\ InitRankerIdle
    /\ InitMonitorIdle
    /\ InitRetryIdle
    /\ InitOpenalexIdle
    /\ environ \in {Environ(lib, api, coll, chinaxiv) :
                       lib \in RequiredValues, api \in RequiredValues,
                       coll \in RequiredValues, chinaxiv \in ChinaxivValues}
    /\ load_call = NoLoadCall
    /\ check_call = NoCheckCall

\* ConfigLoader.load_zotero_config()
CallLoadZoteroConfig ==
    /\ load_call' = LoadZoteroConfig(environ)
    /\ UNCHANGED <<collectorVars, rankerVars, monitorVars, environ, check_call, retryVars, openalexVars>>

\* ConfigLoader.check_env_setup()
CallCheckEnvSetup ==
    /\ check_call' = CheckEnvSetup(environ)
    /\ UNCHANGED <<collectorVars, rankerVars, monitorVars, environ, load_call, retryVars, openalexVars>>

NextLoader ==
    \/ CallLoadZoteroConfig
    \/ CallCheckEnvSetup

SpecLoader == InitLoader /\ [][NextLoader]_vars

(***************************************************************************)
(* The retry decorator alone: a function is decorated and called once;     *)
(* every invocation of it returns or raises.                               *)
(***************************************************************************)
BackoffArgs == {DEFAULT_BACKOFF_FACTOR, 3}

\* exceptions = (Exception,), or an empty tuple
ExceptionsArgs == {DEFAULT_EXCEPTIONS, {}}

InitRetry == InitUnused /\ InitUtil

\* retry_on_error(max_attempts, backoff_factor, exceptions, logger)(func)(),
\* up to the first invocation of func
CallDecorated(n, factor, exceptions, logger) ==
    /\ retry_call.state = "none"
    /\ retry_call' = EnterWrapper(n, factor, exceptions, logger)
    /\ UNCHANGED <<collectorVars, rankerVars, monitorVars, loaderVars, openalexVars>>

\* func(*args, **kwargs) ends as o, and the wrapper goes on from there
Invoke(o) ==
    /\ retry_call.state = "running"
    /\ retry_call' = LoopPass(retry_call, o)
    /\ UNCHANGED <<collectorVars, rankerVars, monitorVars, loaderVars, openalexVars>>

NextRetry ==
    \/ \E n \in 0..MaxAttempts, factor \in BackoffArgs, exceptions \in ExceptionsArgs,
          logger \in BOOLEAN : CallDecorated(n, factor, exceptions, logger)
    \/ \E o \in CallOutcomes : Invoke(o)

SpecRetry == InitRetry /\ [][NextRetry]_vars

(***************************************************************************)
(* The OpenAlex side alone: one _make_request call whose HTTP requests are *)
(* answered one by one (SpecRequest), or one rank_papers_with_openalex     *)
(* call on a list of papers for which get_metrics_for_paper finds some     *)
(* metrics (SpecOpenalex).                                                 *)
(***************************************************************************)
Answers ==
    {Status(200), Status(400), Status(404), Status(500), Status(503), Status(429),
     Failed("ConnectionError"), Failed("Timeout")}

\* What get_metrics_for_paper returns for a paper: metrics found for its
\* journal, or the defaults of _get_default_metrics (50.0, 10.0, 1.0).
FoundMetrics ==
    { MetricsDict(Value(100), Value(500), Value(500)),
      MetricsDict(Value(50), Value(10), Value(10)) }

\* Papers of a search: one from arXiv, one from ChinaXiv, two with neither
\* identifier.
FoundPapers ==
    { Paper(IdA, NoId, "t1"), Paper(NoId, IdB, "t2"), Paper(NoId, NoId, "t3"),
      Paper(NoId, NoId, "t4") }

FoundLists == UNION { [1..n -> FoundPapers] : n \in 0..MaxPapers }

InitOpenalex == InitUnused /\ InitUtil

\* _make_request(url), up to the first request
CallMakeRequest ==
    /\ request_call.state = "none"
    /\ request_call' = [NoRequestCall EXCEPT !.state = "running"]
    /\ UNCHANGED <<collectorVars, rankerVars, monitorVars, loaderVars, retryVars,
                   openalex_call>>

\* session.get(url) ends as a
Answer(a) ==
    /\ request_call.state = "running"
    /\ request_call' = RequestPass(request_call, a)
    /\ UNCHANGED <<collectorVars, rankerVars, monitorVars, loaderVars, retryVars,
                   openalex_call>>

\* rank_papers_with_openalex(papers), where get_metrics_for_paper returns
\* found[paper] for each paper
CallRankPapersWithOpenalex(enabled, ps, found) ==
    /\ ~openalex_call.done
    /\ openalex_call' =
          RankPapersWithOpenalex(enabled, ps, [i \in 1..Len(ps) |-> found[ps[i]]])
    /\ UNCHANGED <<collectorVars, rankerVars, monitorVars, loaderVars, retryVars,
                   request_call>>

NextRequest ==
    \/ CallMakeRequest
    \/ \E a \in Answers : Answer(a)

SpecRequest == InitOpenalex /\ [][NextRequest]_vars

NextOpenalex ==
    \E enabled \in BOOLEAN, ps \in FoundLists, found \in [FoundPapers -> FoundMetrics] :
       CallRankPapersWithOpenalex(enabled, ps, found)

SpecOpenalex == InitOpenalex /\ [][NextOpenalex]_vars

(***************************************************************************)
(* Properties.                                                             *)
(***************************************************************************)
CountCreates(k) == Cardinality({i \in 1..Len(create_log) : create_log[i] = k})

CountStored(k) ==
    Cardinality({i \in 1..Len(items) :
                   items[i].value # <<>> /\ IdKey(items[i].field, items[i].value) = k})

PaperKey(paper) == IdKey(IdentifierField(paper), paper.id)

RunFinished(n) == running = Main /\ pc[Main] = "idle" /\ run_no = n

\* C1: when two records of a batch carry the same identifier and the store
\* held no item with it before the run, the finished (failure-free) run has
\* issued exactly one create for that identifier, and every record counts as
\* a success.
C1_OneCreatePerSharedIdentifier ==
    (RunFinished(1) /\ faults = 0) =>
        \A i, j \in 1..Len(papers) :
            (i < j /\ papers[i].id # NoId /\ PaperKey(papers[i]) = PaperKey(papers[j])
                   /\ CountStored(PaperKey(papers[i])) = CountCreates(PaperKey(papers[i])))
            => /\ CountCreates(PaperKey(papers[i])) = 1
               /\ run_results[1][1] = Len(papers)
               /\ run_results[1][2] = 0

\* C2: once create_item has succeeded for an identifier, every later
\* check_duplicate for it answers "duplicate" without a remote listing.
C2_CreatedIdentifierAnsweredLocally ==
    (last_check.created_before /\ faults = 0) =>
        /\ last_check.ret # NoKey
        /\ last_check.src \notin {"remote", "failed"}

AllHaveIds == \A i \in 1..Len(papers) : papers[i].id # NoId

\* C3: the second run of the same batch on the same collector issues no
\* create: every record is skipped as a duplicate, the second run's success
\* count equals the first one's and nothing fails.
C3_SecondRunCreatesNothing ==
    (RunFinished(2) /\ faults = 0 /\ AllHaveIds /\ papers # <<>>) =>
        /\ run_results[2][3] = 0
        /\ run_results[2][1] = run_results[1][1]
        /\ run_results[2][2] = 0

\* C4: no closed time interval of ZOTERO_RATE_LIMIT_WINDOW seconds holds more
\* than ZOTERO_RATE_LIMIT_MAX_REQUESTS recorded request times, and every
\* request that entered the limiter has been issued and recorded once the
\* call returned (delayed, never dropped).
C4_WindowNeverOverQuota ==
    /\ \A i \in 1..Len(all_times) :
          i + ZOTERO_RATE_LIMIT_MAX_REQUESTS <= Len(all_times)
          => all_times[i + ZOTERO_RATE_LIMIT_MAX_REQUESTS] - all_times[i]
                > ZOTERO_RATE_LIMIT_WINDOW
    /\ pc[Main] = "idle" => request_count = calls

\* More requests than the quota have been made, and the limiter has held
\* one back because the threshold was reached.
C4_Witness ==
    /\ Len(all_times) > ZOTERO_RATE_LIMIT_MAX_REQUESTS
    /\ \E i \in 2..Len(all_times) :
          all_times[i] - all_times[i - 1] > ZOTERO_MIN_REQUEST_INTERVAL
    /\ elapses = 0

\* C5: every request sent to the remote store went through _rate_limit and
\* _track_request.
C5_EveryRequestLimited == bypass = {}

\* C6: two consecutive requests to the remote store are at least
\* ZOTERO_MIN_REQUEST_INTERVAL seconds apart.
C6_MinimumSpacing == send_gap = NoTime \/ send_gap >= ZOTERO_MIN_REQUEST_INTERVAL

InLimiter(t) == pc[t] \in {"call", "track"}

\* C7: a workflow that has passed the limiter's check and not yet recorded
\* its request holds the interpreter, and no other workflow is between its
\* own check and record.
C7_LimiterSectionExclusive ==
    \A t \in Threads :
        InLimiter(t) => /\ running = t
                        /\ \A u \in Threads \ {t} : ~InLimiter(u)

\* A workflow is inside the limiter section while another one is in flight.
C7_Witness ==
    \E t, u \in Tasks : t # u /\ InLimiter(t) /\ pc[u] = "awaiting" /\ request_count > 0

\* C8: an answer served from the arXiv-id cache used a cache younger than
\* CACHE_TTL_SECONDS, and an answer for any other field was never served
\* from a cache entry at all.
C8_NoStaleCacheRead ==
    /\ last_check.src = "arxiv_cache" => last_check.age < CACHE_TTL_SECONDS
    /\ (last_check.src # "none" /\ last_check.field # ArchiveField)
          => last_check.src \in {"remote", "failed"}

\* check_duplicate found the cache expired (never evicted) and is
\* refreshing it from the store.
C8_Witness ==
    /\ pc[Main] = "rl"
    /\ frame[Main].call = "list_refresh"
    /\ cache_timestamp # NoTime
    /\ now - cache_timestamp >= CACHE_TTL_SECONDS
    /\ DOMAIN arxiv_id_cache # {}

\* C9: in global mode, when the store's listing holds an item with the
\* identifier, check_duplicate returns an item key.
C9_NoFalseNegative ==
    (last_check.src # "none" /\ ~last_check.scoped /\ faults = 0
        /\ last_check.truth # NoKey)
    => last_check.ret # NoKey

\* C10: check_duplicate returns an item key only when the scanned scope of
\* the store holds an item with the identifier.
C10_NoFalsePositive ==
    last_check.ret # NoKey => last_check.truth # NoKey

\* C11: a check_duplicate that found no valid cache entry answers
\* "not found" only after a remote listing that succeeded.
C11_NotFoundOnlyAfterListing ==
    (last_check.src \notin {"none", "arxiv_cache", "lookup_cache"}
        /\ last_check.ret = NoKey)
    => last_check.src = "remote"

\* C12: in global mode, a check_duplicate that follows a successful remote
\* listing for the same identifier field within CACHE_TTL_SECONDS is
\* answered from the cache: it never reaches a second listing call.
C12_MissPopulatesCache ==
    \A t \in Threads :
        (pc[t] = "rl" /\ frame[t].call \in {"list_refresh", "list_generic"}
            /\ last_check.src = "remote" /\ ~last_check.scoped
            /\ last_check.field = frame[t].field
            /\ now < CACHE_TTL_SECONDS)
        => FALSE

ListedInCollection(f, ident) ==
    {i \in 1..Len(items) :
        /\ items[i].inColl
        /\ items[i].field = f
        /\ items[i].value # <<>>
        /\ Strip(items[i].value) = Strip(ident)
        /\ Cardinality({j \in (i + 1)..Len(items) : items[j].inColl}) < COLLECTION_LIST_LIMIT}

ElsewhereOnly(f, ident) ==
    /\ ListedInCollection(f, ident) = {}
    /\ \E i \in 1..Len(items) :
          ~items[i].inColl /\ items[i].field = f /\ Strip(items[i].value) = Strip(ident)

\* C14: a collection-only check_duplicate with a target collection is
\* never answered from a cache; its listing yields the key of a listed
\* item of the collection carrying the identifier when there is one, and
\* None when there is none, also when the identifier exists elsewhere in
\* the library; a listing that failed yields None.
C14_ScopedAnswer ==
    /\ \A t \in Threads :
          (pc[t] = "track" /\ frame[t].call = "list_coll") =>
              IF ListedInCollection(frame[t].field, frame[t].ident) = {}
              THEN frame[t].ret = NoKey
              ELSE \E i \in ListedInCollection(frame[t].field, frame[t].ident) :
                      frame[t].ret = items[i].key
    /\ last_check.scoped =>
          /\ last_check.src \in {"remote", "failed"}
          /\ last_check.src = "failed" => last_check.ret = NoKey

\* A collection-only listing came back without the identifier while the
\* library holds it outside the (non-empty) collection.
C14_Witness ==
    /\ pc[Main] = "track"
    /\ frame[Main].call = "list_coll"
    /\ frame[Main].ret = NoKey
    /\ ElsewhereOnly(frame[Main].field, frame[Main].ident)
    /\ \E i \in 1..Len(items) : items[i].inColl

\* C15: while the tasks of a batch run, each record that reached a terminal
\* state is counted in exactly one of the two counters, once; when
\* run_collection_async returns, the counts add up to the batch's length.
C15_CountsAddUp ==
    /\ pc[Main] = "gather" =>
          /\ successful = Cardinality({t \in Tasks : pc[t] = "done_ok"})
          /\ failed = Cardinality({t \in Tasks : pc[t] = "done_fail"})
    /\ \A n \in 1..Len(run_results) :
          run_results[n][1] + run_results[n][2] = Len(papers)

\* A run of at least two records returned with a success and a failure.
C15_Witness ==
    /\ Len(papers) >= 2
    /\ run_results # <<>>
    /\ run_results[1][1] > 0
    /\ run_results[1][2] > 0

\* How far a record's workflow has come: its position in process_paper.
StepsDone(t) ==
    LET c == frame[t].call
        base == IF c \in ListCalls THEN 2 ELSE IF c = "create" THEN 5 ELSE 8
    IN CASE pc[t] \in {"none", "pending"} -> 0
         [] pc[t] = "check" -> 1
         [] pc[t] = "rl" -> base
         [] pc[t] = "call" -> base + 1
         [] pc[t] = "track" -> base + 2
         [] pc[t] = "awaiting" -> 11
         [] pc[t] = "upload" -> 12
         [] pc[t] = "awaiting_sum" -> 13
         [] pc[t] \in Terminal -> 14

\* C16: a record that fails, by an exception or otherwise, adds one to the
\* failure count and touches neither the run nor any other record's
\* workflow; no step of a run takes a workflow backwards and a run in
\* progress can always take a step, so every record reaches a terminal
\* state and run_collection_async returns its pair of counts.
C16_FailureIsContained ==
    /\ [][/\ \A t \in Tasks :
               (pc[t] \notin Terminal /\ pc'[t] = "done_fail") =>
                   /\ failed' = failed + 1
                   /\ successful' = successful
                   /\ pc'[Main] = "gather"
                   /\ \A u \in Tasks \ {t} : pc'[u] = pc[u] /\ frame'[u] = frame[u]
          /\ (pc[Main] = "gather" /\ pc'[Main] = "gather") =>
               /\ \A t \in Tasks : StepsDone(t)' >= StepsDone(t)
               /\ \E t \in Tasks : StepsDone(t)' > StepsDone(t)
          /\ (pc[Main] = "gather" /\ pc'[Main] # "gather") =>
               /\ \A t \in 1..Len(papers) : pc[t] \in Terminal
               /\ run_results' = Append(run_results,
                                        <<successful, failed, Len(create_log)>>)]_vars
    /\ [](pc[Main] = "gather" => ENABLED NextFail)

\* One record has failed after a call raised while another record's
\* workflow is still waiting for its download.
C16_Witness ==
    /\ pc[Main] = "gather"
    /\ faults > 0
    /\ \E t, u \in Tasks : pc[t] = "done_fail" /\ pc[u] = "awaiting"

\* The step in which record t's check_duplicate returns to process_paper.
CheckReturns(t) ==
    /\ \/ pc[t] = "check"
       \/ pc[t] \in {"call", "track"} /\ frame[t].call \in ListCalls
    /\ pc'[t] # pc[t]
    /\ ~(pc'[t] \in {"rl", "call", "track"} /\ frame'[t].call \in ListCalls)

\* C17: when check_duplicate returns an item key, the record is terminal
\* and counted as a success in that same step, with nothing created or
\* sent; a terminal record takes no further step in the run.  When it
\* returns None the record goes on to create its item.
C17_DuplicateGoesToDone ==
    [][\A t \in Tasks :
         /\ CheckReturns(t) =>
               IF frame'[t].ret # NoKey
               THEN /\ pc'[t] = "done_ok"
                    /\ successful' = successful + 1
                    /\ failed' = failed
                    /\ items' = items
                    /\ create_log' = create_log
                    /\ bypass' = bypass
               ELSE pc'[t] = "rl" /\ frame'[t].call = "create"
         /\ (pc[t] \in Terminal /\ pc[Main] = "gather" /\ pc'[Main] = "gather") =>
               pc'[t] = pc[t] /\ frame'[t] = frame[t]]_vars

\* A record was skipped as a duplicate of an item the library already
\* held, while another record of the batch is still on its way.
C17_Witness ==
    /\ pc[Main] = "gather"
    /\ \E t, u \in Tasks :
          /\ pc[t] = "done_ok" /\ frame[t].key = NoKey /\ frame[t].ret # NoKey
          /\ pc[u] \notin Terminal \cup {"none"}
    /\ create_log = <<>>

\* C18: no step of a run removes an item from the library and no delete
\* request is sent; a record that failed after its item was created is
\* counted as failed and its item is still in the library.
C18_NoRollback ==
    /\ [][/\ Len(items') >= Len(items)
          /\ \A i \in 1..Len(items) : items'[i].key = items[i].key
          /\ \A t \in Tasks :
               (frame[t].key # NoKey /\ pc[t] \notin Terminal /\ pc'[t] = "done_fail")
               => failed' = failed + 1 /\ successful' = successful]_vars
    /\ []("delete_item" \notin bypass)
    /\ [](\A t \in Tasks :
            (pc[t] = "done_fail" /\ frame[t].key # NoKey)
            => \E i \in 1..Len(items) : items[i].key = frame[t].key)

\* A record whose item was created has failed in a later step.
C18_Witness ==
    /\ faults > 0
    /\ \E t \in Tasks :
          /\ pc[t] = "done_fail"
          /\ frame[t].key # NoKey
          /\ \E i \in 1..Len(items) : items[i].key = frame[t].key

\* The values AppConfig.validate accepts for concurrency.max_concurrent_papers.
ConcurrentPapersSettings == MIN_CONCURRENT_PAPERS..MAX_CONCURRENT_PAPERS

\* The per-record workflows that have started and are not terminal.
InFlight == {t \in Tasks : pc[t] \notin {"none", "pending"} \cup Terminal}

\* C19: whatever value max_concurrent_papers is configured to, at most
\* that many per-record workflows are in flight at any moment of a run.
C19_PoolBounded ==
    \A size \in ConcurrentPapersSettings : Cardinality(InFlight) <= size

\* C20: once BatchTimeout seconds of the first run have passed, a record
\* that is still pending is never started: it stays pending or is counted
\* as a failure.  (Workflows in flight are left to go on.)
C20_TimeoutStopsStarts ==
    [][\A t \in Tasks :
         (run_no = 0 /\ pc[Main] = "gather" /\ now >= BatchTimeout /\ pc[t] = "pending")
         => \/ pc'[t] = "pending"
            \/ pc'[t] = "done_fail" /\ failed' = failed + 1]_vars

\* A step of record t failed in this transition: its self.zot call raised
\* or was refused.
StepFails(t) == running = t /\ pc[t] = "call" /\ faults' = faults + 1

\* C21: for a record with an identifier the steps come in the order
\* duplicate check, create, secondary actions: create is entered only when
\* the duplicate check returns None, add-to-collection and the attachment
\* steps only with the key of the created item, and a step that fails
\* leaves the record failed without a later step (a failed call is either
\* terminal at once or hands an empty result to the code that fails it).
C21_StepOrder ==
    [][\A t \in Tasks :
         (pc[t] \notin {"none", "pending"} /\ frame[t].ident # NoId) =>
            /\ (pc'[t] = "rl" /\ frame'[t].call = "create" /\ pc[t] # "rl")
                  => CheckReturns(t) /\ frame'[t].ret = NoKey
            /\ ((pc'[t] = "rl" /\ frame'[t].call = "add") \/ pc'[t] \in {"awaiting", "upload"})
                  => frame'[t].key # NoKey
            /\ StepFails(t)
                  => \/ pc'[t] = "done_fail"
                     \/ pc'[t] = "track" /\ frame'[t].ret = NoKey
                           /\ frame'[t].call \in {"create", "add"}
            /\ (pc[t] = "track" /\ frame[t].ret = NoKey /\ frame[t].call \in {"create", "add"})
                  => pc'[t] \in {"track", "done_fail"}]_vars

\* C22: calculate_composite_score returns a value in [0, 100], whatever the
\* metrics and whatever weights the constructor accepted.
C22_ScoreInRange ==
    score_call.done =>
        /\ 0 <= score_call.score.num
        /\ score_call.score.num <= 100 * score_call.score.den

\* What a record was before rank_papers wrote into it.
Base(p) == <<p.arxiv_id, p.chinaxiv_id, p.title>>

Orderings(n) == {f \in [1..n -> 1..n] : \A i, j \in 1..n : f[i] = f[j] => i = j}

\* C23: rank_papers returns its input records, each exactly once, in the
\* order of non-increasing score, records of equal score in their input
\* order; a record without entry in the metrics map carries the score of
\* the default values.
C23_RankIsStablePermutation ==
    rank_call.calls >= 1 =>
        LET inp == rank_call.input
            out == rank_call.output
        IN /\ Len(out) = Len(inp)
           /\ \E f \in Orderings(Len(inp)) :
                /\ \A k \in 1..Len(out) : Base(out[k]) = Base(inp[f[k]])
                /\ \A k, l \in 1..Len(out) :
                     (k < l /\ out[k].openalex_score = out[l].openalex_score)
                     => f[k] < f[l]
           /\ \A k, l \in 1..Len(out) :
                k < l => out[k].openalex_score[1] >= out[l].openalex_score[1]
           /\ \A k \in 1..Len(out) :
                PaperId(out[k]) \notin DOMAIN rank_call.metrics_map
                => out[k].openalex_score =
                      <<Round2(CalculateCompositeScore(ranker, EmptyMetrics))>>

\* A first ranking that moved a record forward, of a list with two
\* different records of equal score and a record without metrics.
C23_Witness ==
    /\ rank_call.calls = 1
    /\ Len(rank_call.output) = MaxPapers
    /\ Base(rank_call.output[1]) # Base(rank_call.input[1])
    /\ \E k, l \in 1..Len(rank_call.output) :
          /\ k < l
          /\ Base(rank_call.output[k]) # Base(rank_call.output[l])
          /\ rank_call.output[k].openalex_score = rank_call.output[l].openalex_score
    /\ \E k \in 1..Len(rank_call.output) :
          PaperId(rank_call.output[k]) \notin DOMAIN rank_call.metrics_map

\* C24: ranking the list rank_papers returned, with the same ranker and
\* metrics map, returns the same list: same order, same scores.
C24_RankIdempotent ==
    [][(rank_call.calls >= 1 /\ rank_call'.calls = rank_call.calls + 1)
       => /\ rank_call'.input = rank_call.output
          /\ rank_call'.output = rank_call.output]_vars

\* A list with different records of equal score was ranked a second time.
C24_Witness ==
    /\ rank_call.calls = 2
    /\ \E k, l \in 1..Len(rank_call.output) :
          /\ k < l
          /\ Base(rank_call.output[k]) # Base(rank_call.output[l])
          /\ rank_call.output[k].openalex_score = rank_call.output[l].openalex_score
    /\ \E k, l \in 1..Len(rank_call.output) :
          rank_call.output[k].openalex_score # rank_call.output[l].openalex_score

\* The weights stored by the constructor sum to 1 and are the given ones
\* divided by their total.
StoredRescaled ==
    /\ ranker.state = "ready"
    /\ SumValues(ranker.weights.num) = ranker.weights.den
    /\ \A i \in 1..Len(MetricNames) :
         ranker.weights.num[MetricNames[i]] * SumValues(ranker.given.num)
            = ranker.given.num[MetricNames[i]] * ranker.weights.den

RawValue(name) ==
    LET e == score_call.metrics[name]
    IN IF ~e.key \/ e.val = <<>> \/ e.val = <<0>>
       THEN ranker.default_scores[name] ELSE e.val[1]

\* C26: the score of each metric is 100 times the normalized default value
\* when the metric is missing, None or 0, and 100 times the normalized
\* given value otherwise.
C26_DefaultWhenAbsentOrZero ==
    score_call.done =>
        \A i \in 1..Len(MetricNames) :
            LET name == MetricNames[i]
                lo == NORMALIZATION_RANGES[name][1]
                hi == NORMALIZATION_RANGES[name][2]
                raw == RawValue(name)
                clamped == IF raw < lo THEN lo ELSE IF raw > hi THEN hi ELSE raw
            IN score_call.scores[name] * (hi - lo) = 100 * (clamped - lo) * ScoreDen

\* A call with one metric missing, one None and one 0, scored from
\* defaults that give none of them a zero score.
C26_Witness ==
    /\ score_call.done
    /\ \E i, j, k \in 1..Len(MetricNames) :
          /\ ~score_call.metrics[MetricNames[i]].key
          /\ score_call.metrics[MetricNames[j]] = None
          /\ score_call.metrics[MetricNames[k]] = Value(0)
    /\ \A i \in 1..Len(MetricNames) : score_call.scores[MetricNames[i]] > 0

\* C27: when every metric is at or above the upper bound of its range and
\* the stored weights sum to 1, the composite score is 100.
C27_AllAtMaxScores100 ==
    (/\ score_call.done
     /\ SumValues(ranker.weights.num) = ranker.weights.den
     /\ \A i \in 1..Len(MetricNames) :
          LET e == score_call.metrics[MetricNames[i]]
          IN e.key /\ e.val # <<>> /\ e.val[1] >= NORMALIZATION_RANGES[MetricNames[i]][2])
    => score_call.score.num = 100 * score_call.score.den

\* Rescaled weights, one metric at its bound and one beyond it.
C27_Witness ==
    /\ score_call.done
    /\ ranker.weights # ranker.given
    /\ score_call.score.num = 100 * score_call.score.den
    /\ score_call.metrics.h_index = Value(NORMALIZATION_RANGES.h_index[2])
    /\ score_call.metrics.impact_factor.val[1] > NORMALIZATION_RANGES.impact_factor[2]
    /\ score_call.metrics.cited_by_percentile.val[1] >= NORMALIZATION_RANGES.cited_by_percentile[2]

\* C28: with window 10 s, deque length 3 and minimum interval 2 s, the
\* fifth acquire/record cycle is complete no earlier than 8 s after the
\* first one started (at time 0).
C28_FiveCyclesTakeEightSeconds ==
    request_count >= 5 => now >= 8

\* Five cycles of requests that take no time, done at 8 s exactly.
C28_Witness ==
    /\ request_count = 5
    /\ pc[Main] = "idle"
    /\ now = 8
    /\ all_times = <<0, 2, 4, 6, 8>>

\* The wrapper of `name` ran in this step.
Tracked(name) == track_call'.seq = track_call.seq + 1 /\ track_call'.name = name

\* For every tracked name the calls are the successes plus the errors.
CountsAddUp ==
    \A name \in DOMAIN stats :
        stats[name].call_count = stats[name].success_count + stats[name].error_count

\* C29 as stated: call_count = success_count + error_count for every name,
\* each call adds exactly one to call_count, and whatever the wrapped
\* function raises is counted as an error and leaves the wrapper unchanged.
C29_EveryRaiseIsAnError ==
    /\ []CountsAddUp
    /\ [][\A name \in TrackedNames :
            Tracked(name) =>
               /\ StatsOf(stats', name).call_count = StatsOf(stats, name).call_count + 1
               /\ track_call'.outcome.kind = "raise" =>
                     /\ StatsOf(stats', name).error_count
                           = StatsOf(stats, name).error_count + 1
                     /\ track_call'.propagated = track_call'.outcome.exc]_vars

\* C29: call_count = success_count + error_count for every name and each
\* call adds exactly one to call_count.  An exception that derives from
\* Exception is counted as an error, any other one (KeyboardInterrupt,
\* SystemExit, ...) as a success like a return; both leave the wrapper
\* unchanged.
C29_ExceptionsAreErrors ==
    /\ []CountsAddUp
    /\ [][\A name \in TrackedNames :
            Tracked(name) =>
               LET o == track_call'.outcome
                   error == o.kind = "raise" /\ o.exc \in ExceptionSubclasses
               IN /\ StatsOf(stats', name).call_count = StatsOf(stats, name).call_count + 1
                  /\ StatsOf(stats', name).error_count
                        = StatsOf(stats, name).error_count + (IF error THEN 1 ELSE 0)
                  /\ StatsOf(stats', name).success_count
                        = StatsOf(stats, name).success_count + (IF error THEN 0 ELSE 1)
                  /\ o.kind = "raise" => track_call'.propagated = o.exc
                  /\ o.kind = "return" => track_call'.propagated = "none"
                  /\ \A other \in DOMAIN stats \ {name} :
                        StatsOf(stats', other) = stats[other]]_vars

\* A name with returns and errors behind it, whose last call raised
\* KeyboardInterrupt, next to another tracked name.
C29_Witness ==
    /\ track_call.outcome = Raises("KeyboardInterrupt")
    /\ track_call.name \in DOMAIN stats
    /\ stats[track_call.name].error_count >= 1
    /\ stats[track_call.name].success_count >= 2
    /\ DOMAIN stats = TrackedNames

\* C30: with both required variables set and TEMP_COLLECTION_KEY unset,
\* load_zotero_config returns a configuration whose collection_key is None;
\* check_env_setup never lists TEMP_COLLECTION_KEY as missing; ConfigError
\* is raised only when a required variable is missing.
C30_CollectionKeyOptional ==
    /\ (load_call.state # "none" /\ MissingRequired(environ) = <<>>
           /\ Getenv(environ, "TEMP_COLLECTION_KEY") = <<>>)
       => load_call.state = "returned" /\ load_call.config.collection_key = <<>>
    /\ check_call.done =>
          \A i \in 1..Len(check_call.missing) : check_call.missing[i] # "TEMP_COLLECTION_KEY"
    /\ load_call.state = "ConfigError" => MissingRequired(environ) # <<>>

\* _rate_limit returns in this step with the threshold reached: at least
\* ZOTERO_RATE_LIMIT_THRESHOLD timestamps are left after pruning.
ThresholdReached ==
    /\ pc[Main] = "rl"
    /\ pc'[Main] = "call"
    /\ Len(request_times') >= ZOTERO_RATE_LIMIT_THRESHOLD

\* window - (now - oldest timestamp) + buffer, from the time read on entry.
ThresholdWait ==
    ZOTERO_RATE_LIMIT_WINDOW - (now - request_times'[1]) + ZOTERO_RATE_LIMIT_BUFFER

\* What is left of the minimum interval at the time read on entry.
SpacingRemainder ==
    LET since_last == now - request_times'[Len(request_times')]
    IN IF since_last < ZOTERO_MIN_REQUEST_INTERVAL
       THEN ZOTERO_MIN_REQUEST_INTERVAL - since_last
       ELSE 0

DefaultsLeft ==
    /\ retry_call.state # "none"
    /\ retry_call.max_attempts >= 1
    /\ retry_call.backoff_factor = DEFAULT_BACKOFF_FACTOR
    /\ retry_call.exceptions = DEFAULT_EXCEPTIONS
    /\ ~retry_call.logger

\* Every invocation so far raised a listed exception.
AllFailed ==
    \A k \in 1..Len(retry_call.outcomes) :
        /\ retry_call.outcomes[k].kind = "raise"
        /\ retry_call.outcomes[k].exc \in retry_call.exceptions

\* C32: a function wrapped by retry_on_error(max_attempts = n), the other
\* arguments at their defaults, that fails with a listed exception on every
\* call is invoked exactly n times, with backoff_factor^(k-1) seconds slept
\* after the k-th failure (k < n), and then its exception is re-raised; when
\* an invocation returns, the wrapper returns and invokes nothing more.
C32_RetriesThenReraises ==
    DefaultsLeft =>
       LET rc == retry_call
           m == Len(rc.outcomes)
       IN /\ AllFailed =>
               /\ m <= rc.max_attempts
               /\ rc.state = "running" <=> m < rc.max_attempts
               /\ rc.sleeps = [k \in 1..(IF m < rc.max_attempts THEN m ELSE m - 1)
                                 |-> Pow(DEFAULT_BACKOFF_FACTOR, k - 1)]
               /\ m = rc.max_attempts =>
                     rc.state = "raised" /\ rc.raised = rc.outcomes[m].exc
          /\ (m >= 1 /\ rc.outcomes[m].kind = "return") => rc.state = "returned"

\* The first k requests of the call were answered with 429 or raised.
AllRefused(k) ==
    \A i \in 1..k :
        RateLimited(request_call.answers[i]) \/ request_call.answers[i].kind = "raise"

\* C33: _make_request sends at most MAX_RETRIES requests and goes on only
\* while fewer have been sent; it returns the first response whose status
\* is not 429, sending nothing after it, and None exactly when MAX_RETRIES
\* requests all raised or were answered with 429.
C33_BoundedRequests ==
    LET rq == request_call
        n == Len(rq.answers)
    IN /\ n <= MAX_RETRIES
       /\ rq.state = "running" => n < MAX_RETRIES /\ AllRefused(n)
       /\ rq.state = "returned" =>
             IF AllRefused(n)
             THEN n = MAX_RETRIES /\ rq.response = <<>>
             ELSE /\ AllRefused(n - 1)
                  /\ rq.response = <<rq.answers[n]>>
                  /\ ~RateLimited(rq.answers[n])

\* A call that returned None after a request that raised and two that were
\* answered with 429.
C33_Witness ==
    /\ request_call.state = "returned"
    /\ request_call.response = <<>>
    /\ request_call.answers = <<Status(429), Failed("Timeout"), Status(429)>>

\* C38: after rank_papers_with_openalex every paper of the list carries the
\* metrics that get_metrics_for_paper returned for it during the preload,
\* and its score is the composite score of those metrics.
C38_ScoredWithOwnMetrics ==
    (openalex_call.done /\ openalex_call.enabled) =>
       LET r == JournalRankerInit(NotGiven(DEFAULT_WEIGHTS), NotGiven(DEFAULT_SCORES))
       IN \A i \in 1..Len(openalex_call.papers) :
             /\ openalex_call.papers[i].openalex_metrics = openalex_call.fetched[i]
             /\ openalex_call.papers[i].openalex_score
                   = <<Round2(CalculateCompositeScore(r, openalex_call.fetched[i]))>>

\* process_paper of record t returns in this step: True (counted as
\* "done_ok") or False ("done_fail").
ReturnsTrue(t) == pc[t] \notin Terminal /\ pc'[t] = "done_ok"

ReturnsFalse(t) == pc[t] \notin Terminal /\ pc'[t] = "done_fail"

\* check_duplicate has just answered with an existing item's key.
DuplicateDetected(t) ==
    /\ pc[t] = "check" \/ (pc[t] = "track" /\ frame[t].call \in ListCalls)
    /\ frame'[t].ret # NoKey

\* create_item returned a key for the record.
ItemCreated(t) == frame'[t].key # NoKey

\* The record's item is filed in the collection.
AddedToCollection(t) ==
    \E i \in 1..Len(items') : items'[i].key = frame'[t].key /\ items'[i].inColl

\* The PDF was downloaded and its upload stored the attachment (in this
\* step, or before the summarizer was awaited).
PdfAttached(t) ==
    \/ pc[t] = "upload" /\ Len(items') = Len(items) + 1
    \/ pc[t] = "awaiting_sum"

\* The steps of the claim: created, filed if a collection is configured,
\* PDF attached if download_pdfs is set.
ItemComplete(t) ==
    /\ ItemCreated(t)
    /\ collection_key => AddedToCollection(t)
    /\ download_pdfs => PdfAttached(t)

\* summarize was awaited and returned without raising.
Summarized(t) == pc[t] = "awaiting_sum" /\ faults' = faults

CallRaises(t) == pc[t] = "call" /\ pc'[t] # "call" /\ returned_calls' = returned_calls

\* C35: when the remote call inside a rate-limited operation raises,
\* request_times and the request counter stay as they are and the operation
\* does not go on to _track_request; so the counter never exceeds the number
\* of remote calls that returned.
C35_RaisedCallsUncounted ==
    /\ [](request_count + Cardinality({t \in Threads : pc[t] = "track"}) <= returned_calls)
    /\ [][\A t \in Threads :
            CallRaises(t) =>
               /\ request_times' = request_times
               /\ request_count' = request_count
               /\ all_times' = all_times
               /\ pc'[t] # "track"]_vars

\* A create whose remote call raised, after a listing that returned and was
\* counted: one timestamp, one request counted, one failure.
C35_Witness ==
    /\ faults = 1
    /\ returned_calls = 1
    /\ request_count = 1
    /\ Len(request_times) = 1
    /\ create_log = <<>>
    /\ \E t \in Tasks : pc[t] = "done_fail" /\ frame[t].call = "none"

\* The records of the batch that carry no identifier.
Unidentified == {t \in 1..Len(papers) : papers[t].id = NoId}

\* C36: the workflow of a record without identifier never enters
\* check_duplicate and never lists the library, it goes to create_item; once
\* all workflows of a run are over, as many create calls were made for
\* records without identifier as the batch holds such records, in every run.
C36_UnidentifiedAlwaysCreated ==
    /\ \A t \in Unidentified :
          /\ pc[t] # "check"
          /\ frame[t].call \notin ListCalls
          /\ pc[t] \in {"rl", "call", "track"} => frame[t].call \in {"create", "add"}
    /\ (\A t \in 1..Len(papers) : pc[t] \in Terminal) =>
          CountCreates(IdKey(NoField, NoId)) = Cardinality(Unidentified)

\* The second run of a batch of two records without identifier is over:
\* two creates in this run, four such items in the library.
C36_Witness ==
    /\ run_no = 2
    /\ Cardinality(Unidentified) = 2
    /\ CountCreates(IdKey(NoField, NoId)) = 2
    /\ ~download_pdfs
    /\ Len(items) = 4
    /\ \A i \in 1..4 : items[i].value = NoId

\* The path global mode takes for the call in frame f, lines 366-402: the
\* arXiv-id cache or its refresh for archiveLocation, the lookup cache or a
\* library-wide listing for any other field.
GlobalPath(f) ==
    IF f.field = ArchiveField
    THEN IF cache_timestamp # NoTime /\ now - cache_timestamp < CACHE_TTL_SECONDS
         THEN "arxiv_hit" ELSE "list_refresh"
    ELSE IF \E i \in 1..Len(lookup_cache) : lookup_cache[i][1] = <<f.field, f.ident>>
         THEN "lookup_hit" ELSE "list_generic"

\* What a library-wide listing returns: the newest GLOBAL_LIST_LIMIT items.
WholeLibrary == Take(Reverse(items), GLOBAL_LIST_LIMIT)

\* C37: on a client without collection key, every step of check_duplicate
\* is the step of global mode, whether collection_only is set or not: the
\* same path is taken (cache answer, cache refresh or library-wide
\* listing, never a collection listing), a cache answer sends nothing, a
\* listing is library-wide, and the answer is the one global mode gives.
C37_NoKeyMeansGlobal ==
    [][~collection_key =>
          LET f == frame[Main]
              path == GlobalPath(f)
          IN /\ (pc[Main] = "check" /\ pc'[Main] # "check") =>
                   /\ pc'[Main] = "rl" <=> path \in {"list_refresh", "list_generic"}
                   /\ pc'[Main] = "rl" => frame'[Main].call = path
                   /\ path = "arxiv_hit" =>
                         /\ frame'[Main].ret = DictGet(arxiv_id_cache, Strip(f.ident))
                         /\ last_check'.src = "arxiv_cache"
                   /\ path = "lookup_hit" =>
                         /\ frame'[Main].ret = LookupGet(lookup_cache, <<f.field, f.ident>>)
                         /\ last_check'.src = "lookup_cache"
                   /\ request_count' = request_count
                   /\ last_send' = last_send
             /\ (pc[Main] = "call" /\ pc'[Main] = "track" /\ f.call \in ListCalls) =>
                   /\ f.call # "list_coll"
                   /\ f.call = "list_generic" =>
                         frame'[Main].ret = ScanResults(WholeLibrary, f.field, f.ident)
                   /\ f.call = "list_refresh" =>
                         arxiv_id_cache' = BuildCache(WholeLibrary, EmptyDict)
             /\ last_check' # last_check =>
                   /\ ~last_check'.scoped
                   /\ last_check'.ret = frame'[Main].ret]_vars

\* Two calls with collection_only set have been answered on a client
\* without collection key: one by a library-wide listing, the last one from
\* the arXiv-id cache with the key of an item.
C37_Witness ==
    /\ ~collection_key
    /\ frame[Main].conly
    /\ pc[Main] = "idle"
    /\ last_check.src = "arxiv_cache"
    /\ last_check.ret # NoKey
    /\ request_count >= 1
    /\ calls >= 2

====
